---- MODULE Spec2Model ----
(***************************************************************************)
(* A model of the arena server: GameLogic (entities, bullets, the physics  *)
(* body set, collision resolution, bullet reaping), the UI entry points    *)
(* that drive it, and the per-connection ClientHandler with its            *)
(* address -> entity-id map.                                               *)
(*                                                                         *)
(* Conventions.  Vec indices are 1-based here (Rust index i is i+1).       *)
(* A RigidBodyHandle of rapier's generational arena is a number that is     *)
(* handed out once and never again; NoBody stands for "collider has no     *)
(* parent body" (arena boundaries, obstacles).  Instants are milliseconds. *)
(* Actuator values are hundredths (50 is 0.5), speeds are units per second, *)
(* angles and angular velocities are thousandths of a radian.              *)
(***************************************************************************)
EXTENDS Integers, Sequences, FiniteSets, TLC

\* ---------------------------------------------------------------- bounds
MaxEntities == 3
MaxBullets == 2
MaxHandles == 4
MaxEvents == 3
MaxEventsMoving == 0
MaxClock == 3000
MaxConns == 1

\* ------------------------------------------------------------- constants
ARENA_WIDTH == 1200
ARENA_HEIGHT == 1000
BOT_RATE_OF_FIRE == 1000
CONNECTION_TIMEOUT_DELAY == 1
BULLET_TTL_SECS == 2
OOB_BOUNDS == 1200
AI_SHOT_PERIOD == 500
TRIGGER_THRESHOLD == 50

NoBody == 0
Addrs == 1..MaxConns

\* The instants (ms) at which the clock is read: the start, one second
\* later, and two seconds after that.
Times == {0, 1000, 3000}

VARIABLES
    entities,           \* GameLogic.entities : Vec<Entity>
    bullets,            \* GameLogic.bullets : Vec<Bullet>
    bodies,             \* PhysicsEngine.bodies : the handles that are valid
    nextHandle,         \* next handle the body arena hands out
    now,                \* the clock (ms)
    client_entity_map,  \* ServerThread.client_entity_map : addr -> id
    conn,               \* per address: the ClientHandler of that connection
    collision_events,   \* PhysicsEngine.collision_events : Vec<CollisionEvent>
    pc,                 \* where the UI thread is in GameUI::update
    panicked,           \* a thread panicked while holding the world lock
    lock,               \* the thread that holds the world lock (the Mutex)
    last,               \* what the latest operation did (history record)
    obstacles,          \* GameLogic.obstacles : Vec<Obstacle>
    colliders,          \* PhysicsEngine.colliders : the obstacles' colliders
    map_lock            \* the thread that holds the lock of client_entity_map

vars == <<entities, bullets, bodies, nextHandle, now,
          client_entity_map, conn, collision_events, pc, panicked, lock,
          last, obstacles, colliders, map_lock>>

\* ------------------------------------------------------------ Vec helpers
\* Vec::remove(index): the elements after index shift down by one.
VecRemove(s, i) == [k \in 1..(Len(s) - 1) |-> IF k < i THEN s[k] ELSE s[k + 1]]

\* Iterator::position: the first index whose element satisfies P, 0 for None.
position(s, P(_)) ==
    IF \E i \in 1..Len(s) : P(s[i])
    THEN CHOOSE i \in 1..Len(s) : P(s[i]) /\ \A j \in 1..(i - 1) : ~P(s[j])
    ELSE 0

SeqRange(s) == {s[i] : i \in 1..Len(s)}

\* The elements of a finite set of numbers in ascending order.
RECURSIVE ascending(_)
ascending(S) ==
    IF S = {} THEN <<>>
    ELSE LET m == CHOOSE x \in S : \A y \in S : x <= y
         IN <<m>> \o ascending(S \ {m})

RECURSIVE InsertDesc(_, _)
InsertDesc(s, x) ==
    IF s = <<>> THEN <<x>>
    ELSE IF x >= Head(s) THEN <<x>> \o s
    ELSE <<Head(s)>> \o InsertDesc(Tail(s), x)

\* sort_unstable_by(|a, b| b.cmp(a)): descending, duplicates kept.
RECURSIVE sort_desc(_)
sort_desc(s) == IF s = <<>> THEN <<>> ELSE InsertDesc(sort_desc(Tail(s)), Head(s))

\* Duration::as_secs / as_millis of (now - t).
elapsed_ms(t, clock) == clock - t
as_secs(ms) == ms \div 1000

\* ------------------------------------------------------------ the world
\* A world value W is the part of GameLogic the operations below rewrite:
\* [entities, bullets, bodies, next], next being the arena's next handle.
World(e, b, bd, n) == [entities |-> e, bullets |-> b, bodies |-> bd, next |-> n]

\* Representative body positions: inside the arena, left of it, in the band
\* above the arena's top edge but below 1200, and above 1200.
InArena == <<600, 500>>
Positions == {InArena, <<0 - 1, 500>>, <<600, 1100>>, <<600, 1201>>}

\* f32 values are counted in hundredths.  NaN and the infinities are
\* values outside the range of the finite ones, and every comparison with
\* NaN is false.
Infinity == 1000000
NaN == 0 - 2000000
f32_gt(x, y) == x # NaN /\ y # NaN /\ x > y

\* egui::Color32::LIGHT_GRAY.
LIGHT_GRAY == <<220, 220, 220>>

\* std::f64::consts::TAU, in thousandths of a radian.
TAU == 6283

\* Entity::new: the body is inserted in the arena, the entity starts with
\* score 0, health 1, motors and traverse 0.5, gun_trigger 0.0, the colour
\* light gray and last_shot = now.
NewEntity(id, is_ai, handle, clock) ==
    [id |-> id, handle |-> handle, score |-> 0, health |-> 1,
     is_ai |-> is_ai, last_shot |-> clock, gun_trigger |-> 0,
     name |-> IF is_ai THEN "AI Bot" ELSE "Player", color |-> LIGHT_GRAY,
     motor_left |-> 50, motor_right |-> 50, gun_traverse |-> 50]

SeqMax(s) ==
    IF s = <<>> THEN 0
    ELSE CHOOSE m \in SeqRange(s) : \A x \in SeqRange(s) : x <= m

\* Ids handed out by the number of live entities.
next_entity_id_by_count(ents) == Len(ents) + 1

\* GameLogic::next_entity_id: max of the live ids, or 0, plus one.
\* An id counter that starts at 0.
next_entity_id_from_zero(ents) ==
    IF ents = <<>> THEN 0 ELSE SeqMax([i \in 1..Len(ents) |-> ents[i].id]) + 1

next_entity_id(ents) == SeqMax([i \in 1..Len(ents) |-> ents[i].id]) + 1

\* GameLogic::add_entity / add_ai (is_ai tells which).
add_entity(W, is_ai, clock) ==
    LET id == next_entity_id(W.entities)
    IN World(Append(W.entities, NewEntity(id, is_ai, W.next, clock)),
             W.bullets, W.bodies \cup {W.next}, W.next + 1)

\* A removal that forgets physics_engine.remove_body: the entity leaves the
\* list and its body stays in the physics world.
remove_entity_by_id_keeps_body(W, entity_id) ==
    LET HasId(e) == e.id = entity_id
        index == position(W.entities, HasId)
    IN IF index = 0 THEN W
       ELSE World(VecRemove(W.entities, index), W.bullets, W.bodies, W.next)

\* A removal that takes the bullets the entity has fired with it.
remove_entity_by_id_with_bullets(W, entity_id) ==
    LET HasId(e) == e.id = entity_id
        index == position(W.entities, HasId)
        Mine(k) == W.bullets[k].shooter = W.entities[index].handle
        kept == ascending({k \in 1..Len(W.bullets) : ~Mine(k)})
    IN IF index = 0 THEN W
       ELSE World(VecRemove(W.entities, index),
                  [k \in 1..Len(kept) |-> W.bullets[kept[k]]],
                  W.bodies \ ({W.entities[index].handle}
                                \cup {W.bullets[k].handle :
                                         k \in {l \in 1..Len(W.bullets) : Mine(l)}}),
                  W.next)

\* GameLogic::remove_entity_by_id: the first entity with that id is removed
\* together with its body; nothing happens when there is none.
remove_entity_by_id(W, entity_id) ==
    LET HasId(e) == e.id = entity_id
        index == position(W.entities, HasId)
    IN IF index = 0 THEN W
       ELSE World(VecRemove(W.entities, index), W.bullets,
                  W.bodies \ {W.entities[index].handle}, W.next)

\* GameLogic::get_entity_mut: index of the first entity with that id, 0 if none.
get_entity_mut(ents, id) ==
    LET HasId(e) == e.id = id IN position(ents, HasId)

\* Bullet::new and the literal in update_ai: a fresh body, the shooter's
\* handle retained, created_at = now.  active_events tells whether the
\* bullet's collider was built with ActiveEvents::COLLISION_EVENTS: Bullet::new
\* sets the flag, the collider built in update_ai does not have it.
NewBullet(handle, shooter, clock, pos, active_events) ==
    [handle |-> handle, shooter |-> shooter, created_at |-> clock, pos |-> pos,
     active_events |-> active_events]

spawn_bullet(W, shooter, clock, active_events) ==
    World(W.entities,
          Append(W.bullets,
                 NewBullet(W.next, shooter, clock, InArena, active_events)),
          W.bodies \cup {W.next}, W.next + 1)

\* A gun without a rate of fire.
shoot_ball_no_cooldown(W, i, clock) ==
    spawn_bullet(W, W.entities[i].handle, clock, TRUE)

\* GameLogic::shoot_ball: nothing before the rate-of-fire delay has elapsed.
shoot_ball(W, i, clock) ==
    IF elapsed_ms(W.entities[i].last_shot, clock) < BOT_RATE_OF_FIRE THEN W
    ELSE spawn_bullet(W, W.entities[i].handle, clock, TRUE)

\* apply_actuators, "(entity.motor - 0.5) * 2.0 * max_speed" with max_speed
\* 100.0: the motor value (hundredths) rescaled to -100 .. 100.
MAX_SPEED == 100
motor_speed(motor) == ((motor - 50) * 2 * MAX_SPEED) \div 100

\* "forward = (left_speed + right_speed) / 2.0".
forward_speed(left_speed, right_speed) == (left_speed + right_speed) \div 2

\* "rotation = (right_speed - left_speed) / 40.0", in thousandths.
TURN_DIVISOR == 40

\* A differential drive that turns the other way.
rotation_speed_reversed(left_speed, right_speed) ==
    ((left_speed - right_speed) * 1000) \div TURN_DIVISOR

rotation_speed(left_speed, right_speed) ==
    ((right_speed - left_speed) * 1000) \div TURN_DIVISOR

\* apply_actuators, last statement of the loop body:
\* "entity.gun_orientation = entity.gun_traverse as f64" (hundredths to
\* thousandths; NaN and the infinities stay what they are).
gun_orientation_of(gun_traverse) ==
    IF gun_traverse \in {NaN, Infinity, 0 - Infinity} THEN gun_traverse
    ELSE gun_traverse * 10

\* What one iteration of the loop of apply_actuators writes besides the
\* trigger part: the speed along the body's heading handed to set_linvel,
\* the angular velocity handed to set_angvel, and entity.gun_orientation.
\* (The bodies' velocities and gun_orientation, which only Bullet::new
\* reads for the direction of a shot, are not part of the state here.)
velocity_command(entity) ==
    [handle |-> entity.handle,
     forward |-> forward_speed(motor_speed(entity.motor_left),
                               motor_speed(entity.motor_right)),
     rotation |-> rotation_speed(motor_speed(entity.motor_left),
                                 motor_speed(entity.motor_right)),
     gun_orientation |-> gun_orientation_of(entity.gun_traverse)]

\* The trigger part of the loop body: shoot_ball when gun_trigger > 0.5,
\* and last_shot = now when the bullet list has grown.
pull_trigger(W, W1, i, clock) ==
    IF Len(W1.bullets) > Len(W.bullets)
    THEN [W1 EXCEPT !.entities[i].last_shot = clock]
    ELSE W1

\* One iteration of the loop of GameLogic::apply_actuators.
apply_actuators_one(W, i, clock) ==
    IF W.entities[i].handle \notin W.bodies THEN W
    ELSE IF f32_gt(W.entities[i].gun_trigger, TRIGGER_THRESHOLD)
         THEN pull_trigger(W, shoot_ball(W, i, clock), i, clock)
         ELSE W

RECURSIVE apply_actuators_from(_, _, _)
apply_actuators_from(W, i, clock) ==
    IF i > Len(W.entities) THEN W
    ELSE apply_actuators_from(apply_actuators_one(W, i, clock), i + 1, clock)

apply_actuators(W, clock) == apply_actuators_from(W, 1, clock)

\* What one actuation phase writes: one record for every entity that has
\* a body.
velocity_commands(W) ==
    {velocity_command(W.entities[i]) :
        i \in {j \in 1..Len(W.entities) : W.entities[j].handle \in W.bodies}}

\* update_ai, the test of the first pass for one entity: last_shot is older
\* than the random draw (1.0 .. 3.0 s).
ai_retargets(entity, draw, clock) ==
    entity.is_ai /\ elapsed_ms(entity.last_shot, clock) > draw

\* update_ai, first pass: an AI entity for which the test holds picks a new
\* target and a new gun orientation and restarts last_shot.
RECURSIVE ai_retarget_from(_, _, _, _)
ai_retarget_from(ents, i, draw, clock) ==
    IF i > Len(ents) THEN ents
    ELSE ai_retarget_from(
            IF ai_retargets(ents[i], draw[i], clock)
            THEN [ents EXCEPT ![i].last_shot = clock]
            ELSE ents,
            i + 1, draw, clock)

\* update_ai, the test of the last pass for one entity.
ai_shoots(entity, clock) ==
    entity.is_ai /\ elapsed_ms(entity.last_shot, clock) >= AI_SHOT_PERIOD

\* update_ai, last pass: an AI entity whose last_shot is at least 500 ms old
\* inserts a bullet body at its own position and restarts last_shot.
RECURSIVE ai_shoot_from(_, _, _)
ai_shoot_from(W, i, clock) ==
    IF i > Len(W.entities) THEN W
    ELSE ai_shoot_from(
            IF ai_shoots(W.entities[i], clock)
            THEN [spawn_bullet(W, W.entities[i].handle, clock, FALSE)
                    EXCEPT !.entities[i].last_shot = clock]
            ELSE W,
            i + 1, clock)

update_ai(W, draw, clock) ==
    ai_shoot_from([W EXCEPT !.entities = ai_retarget_from(W.entities, 1, draw, clock)],
                  1, clock)

\* -------------------------------------------------- collision resolution
\* A collision-start event is the pair of the two colliders' parent bodies
\* (NoBody for a collider without parent).

\* A resolution without the shooter test: every struck entity counts as a
\* foreign target.
is_own_shooter_untested(bullet, entity) == FALSE

\* handle_collisions, the test "bullet.shooter != entities[entity_index].handle".
is_own_shooter(bullet, entity) == bullet.shooter = entity.handle

\* handle_collisions, "bullet.handle == body1 || bullet.handle == body2".
bullet_matches(bullet, body1, body2) ==
    bullet.handle = body1 \/ bullet.handle = body2

\* The accumulator of the event loop of handle_collisions:
\*   entities  the entity list with health and score updated so far,
\*   marks     bullet_indices_to_remove,
\*   dead      entity_ids_to_remove,
\*   hits      history: one record per event in which a bullet was found:
\*             the bullet, its shooter handle, the struck entity's handle
\*             (NoBody when no entity is in the event), the handle of the
\*             live entity that is the shooter (NoBody when there is none),
\*             and what the event took from the struck entity's health and
\*             added to the shooter's score.
\* "self.entities.iter().position(|e| e.handle == body1 || e.handle == body2)".
struck_position(ents, body1, body2) ==
    LET IsStruck(e) == e.handle = body1 \/ e.handle = body2
    IN position(ents, IsStruck)

\* "self.entities.iter().position(|e| e.handle == bullet.shooter)".
shooter_position(ents, bullet) ==
    LET IsShooter(e) == e.handle = bullet.shooter IN position(ents, IsShooter)

\* The first bullet of the list that is one of the two bodies, 0 if none.
bullet_position(bl, body1, body2) ==
    LET IsBullet(b) == bullet_matches(b, body1, body2) IN position(bl, IsBullet)

\* The history record of an event in which a bullet was found.
hit_record(ents, bullet, entity_index, shooter_index, health, score) ==
    [bullet |-> bullet.handle, shooter |-> bullet.shooter,
     struck |-> IF entity_index = 0 THEN NoBody ELSE ents[entity_index].handle,
     scorer |-> IF shooter_index = 0 THEN NoBody ELSE ents[shooter_index].handle,
     health |-> health, score |-> score]

\* A hit that costs the shooter a point.
damage_costs_shooter(acc, bullet, bullet_index, entity_index, shooter_index) ==
    [entities |-> [acc.entities EXCEPT
                     ![entity_index].health = @ - 1,
                     ![shooter_index].score = @ - 1],
     marks |-> Append(acc.marks, bullet_index),
     dead |-> IF acc.entities[entity_index].health - 1 <= 0
              THEN Append(acc.dead, acc.entities[entity_index].id)
              ELSE acc.dead,
     hits |-> Append(acc.hits,
                     hit_record(acc.entities, bullet, entity_index,
                                shooter_index, 1, 1))]

\* A hit that takes health and gives no score.
damage_without_score(acc, bullet, bullet_index, entity_index, shooter_index) ==
    [entities |-> [acc.entities EXCEPT ![entity_index].health = @ - 1],
     marks |-> Append(acc.marks, bullet_index),
     dead |-> IF acc.entities[entity_index].health - 1 <= 0
              THEN Append(acc.dead, acc.entities[entity_index].id)
              ELSE acc.dead,
     hits |-> Append(acc.hits,
                     hit_record(acc.entities, bullet, entity_index,
                                shooter_index, 1, 1))]

\* The statements under "if let Some(shooter_index)": the struck entity loses
\* 1 health, the shooter gains 1 score, a dead entity's id is recorded.
damage(acc, bullet, bullet_index, entity_index, shooter_index) ==
    [entities |-> [acc.entities EXCEPT
                     ![entity_index].health = @ - 1,
                     ![shooter_index].score = @ + 1],
     marks |-> Append(acc.marks, bullet_index),
     dead |-> IF acc.entities[entity_index].health - 1 <= 0
              THEN Append(acc.dead, acc.entities[entity_index].id)
              ELSE acc.dead,
     hits |-> Append(acc.hits,
                     hit_record(acc.entities, bullet, entity_index,
                                shooter_index, 1, 1))]

\* The body of "if bullet.handle == body1 || bullet.handle == body2" for the
\* bullet found: its index is pushed, then the entity and shooter lookups.
resolve_bullet(acc, bullet, bullet_index, entity_index, shooter_index) ==
    IF entity_index # 0
       /\ ~is_own_shooter(bullet, acc.entities[entity_index])
       /\ shooter_index # 0
    THEN damage(acc, bullet, bullet_index, entity_index, shooter_index)
    ELSE [acc EXCEPT
            !.marks = Append(acc.marks, bullet_index),
            !.hits = Append(acc.hits,
                            hit_record(acc.entities, bullet, entity_index,
                                       shooter_index, 0, 0))]

\* A loop body that goes on to the bullet scan when a collider has no
\* parent body.
resolve_found_any_collider(acc, bl, ev, bullet_index) ==
    IF bullet_index = 0 THEN acc
    ELSE resolve_bullet(acc, bl[bullet_index], bullet_index,
                        struck_position(acc.entities, ev[1], ev[2]),
                        shooter_position(acc.entities, bl[bullet_index]))

resolve_found(acc, bl, ev, bullet_index) ==
    IF ev[1] = NoBody \/ ev[2] = NoBody \/ bullet_index = 0 THEN acc
    ELSE resolve_bullet(acc, bl[bullet_index], bullet_index,
                        struck_position(acc.entities, ev[1], ev[2]),
                        shooter_position(acc.entities, bl[bullet_index]))

\* The body of the loop for one event; the bullet list is not changed while
\* the events are drained.
resolve_event(acc, bl, ev) ==
    resolve_found(acc, bl, ev, bullet_position(bl, ev[1], ev[2]))

\* A loop that handles the first event of the buffer and drops the others.
resolve_events_first_only(acc, bl, events) ==
    IF events = <<>> THEN acc ELSE resolve_event(acc, bl, Head(events))

\* The loop "for event in collision_events.drain(..)".
RECURSIVE resolve_events(_, _, _)
resolve_events(acc, bl, events) ==
    IF events = <<>> THEN acc
    ELSE resolve_events(resolve_event(acc, bl, Head(events)), bl, Tail(events))

\* The order in which handle_collisions walks bullet_indices_to_remove.
removal_order(marks) == sort_desc(marks)

\* A removal pass R is [W, removed, failed]: the world, the handles of the
\* bullets removed so far, and whether Vec::remove was called with an index
\* >= len (which panics).
\* GameLogic::remove_bullet.
remove_bullet(R, index) ==
    IF index > Len(R.W.bullets) THEN [R EXCEPT !.failed = TRUE]
    ELSE [W |-> World(R.W.entities, VecRemove(R.W.bullets, index),
                      R.W.bodies \ {R.W.bullets[index].handle}, R.W.next),
          removed |-> Append(R.removed, R.W.bullets[index].handle),
          failed |-> FALSE]

RECURSIVE remove_bullets(_, _)
remove_bullets(R, indices) ==
    IF indices = <<>> \/ R.failed THEN R
    ELSE remove_bullets(remove_bullet(R, Head(indices)), Tail(indices))

RECURSIVE remove_entities(_, _)
remove_entities(W, ids) ==
    IF ids = <<>> THEN W
    ELSE remove_entities(remove_entity_by_id(W, Head(ids)), Tail(ids))

\* handle_collisions after the bullet removals R: the dead entities are
\* removed unless a removal panicked (the loop over entity_ids_to_remove is
\* then not reached).
collisions_removed(W, acc, R) ==
    [W |-> IF R.failed THEN R.W ELSE remove_entities(R.W, acc.dead),
     failed |-> R.failed,
     marks |-> [k \in 1..Len(acc.marks) |-> W.bullets[acc.marks[k]].handle],
     removed |-> R.removed,
     hits |-> acc.hits,
     dead |-> acc.dead]

\* handle_collisions after the event loop has left acc.
collisions_resolved(W, acc) ==
    collisions_removed(W, acc,
        remove_bullets([W |-> [W EXCEPT !.entities = acc.entities],
                        removed |-> <<>>, failed |-> FALSE],
                       removal_order(acc.marks)))

\* GameLogic::handle_collisions.  The result is
\* [W, failed, marks, removed, hits, dead].
handle_collisions(W, events) ==
    collisions_resolved(W,
        resolve_events([entities |-> W.entities, marks |-> <<>>,
                        dead |-> <<>>, hits |-> <<>>],
                       W.bullets, events))

\* remove_out_of_bounds_bullets, the test on the body's translation.
out_of_bounds(pos) ==
    pos[1] < 0 \/ pos[1] > OOB_BOUNDS \/ pos[2] < 0 \/ pos[2] > OOB_BOUNDS

\* remove_expired_bullets, the test on the bullet's age.
expired(bullet, clock) ==
    as_secs(elapsed_ms(bullet.created_at, clock)) >= BULLET_TTL_SECS

\* The indices a scan of the bullet list (iter().enumerate()) collects.
scan(bl, P(_)) == ascending({i \in 1..Len(bl) : P(bl[i])})

\* GameLogic::remove_out_of_bounds_bullets.
remove_out_of_bounds_bullets(W) ==
    LET Out(b) == out_of_bounds(b.pos)
    IN remove_bullets([W |-> W, removed |-> <<>>, failed |-> FALSE],
                      sort_desc(scan(W.bullets, Out)))

\* GameLogic::remove_expired_bullets.
remove_expired_bullets(W, clock) ==
    LET Old(b) == expired(b, clock)
    IN remove_bullets([W |-> W, removed |-> <<>>, failed |-> FALSE],
                      sort_desc(scan(W.bullets, Old)))

\* PhysicsEngine::step as seen by the game logic: every bullet body is at
\* some position afterwards (collision_events is set by the caller).
physics_step(W, newpos) ==
    [W EXCEPT !.bullets = [k \in 1..Len(W.bullets) |->
                              [W.bullets[k] EXCEPT !.pos = newpos[k]]]]

\* GameLogic::step after remove_expired_bullets.
step_after_expired(col, oob, exp) ==
    [W |-> exp.W, failed |-> exp.failed, col |-> col,
     reaped |-> oob.removed \o exp.removed]

\* GameLogic::step after remove_out_of_bounds_bullets.
step_after_oob(col, oob, clock) ==
    IF oob.failed
    THEN [W |-> oob.W, failed |-> TRUE, col |-> col, reaped |-> oob.removed]
    ELSE step_after_expired(col, oob, remove_expired_bullets(oob.W, clock))

\* GameLogic::step after handle_collisions.
step_after_collisions(col, clock) ==
    IF col.failed
    THEN [W |-> col.W, failed |-> TRUE, col |-> col, reaped |-> <<>>]
    ELSE step_after_oob(col, remove_out_of_bounds_bullets(col.W), clock)

\* GameLogic::step after physics.step(): handle_collisions, then
\* remove_out_of_bounds_bullets, then remove_expired_bullets; a panic ends
\* it where it happens.  The result is [W, failed, col, reaped].
step_after_physics(W, events, clock) ==
    step_after_collisions(handle_collisions(W, events), clock)

\* ------------------------------------------------------- the state machine
CurrentWorld == World(entities, bullets, bodies, nextHandle)

SetWorld(W) ==
    /\ entities' = W.entities
    /\ bullets' = W.bullets
    /\ bodies' = W.bodies
    /\ nextHandle' = W.next

\* The history record of the latest tick, kept while its frame is drawn:
\* hits is the log of resolve_event, marks and removed are the handles of
\* the bullets that were marked and of those the removal loop removed (in
\* its order), reaped the bullets the two reaping passes removed.  After a
\* reset it holds the number of bullets the reset cleared and the positions
\* the entities may have been given.  After the actuation phase it holds
\* the velocity commands apply_actuators issued.  Where update_ai is called
\* on its own, ai is the log of the calls: called tells that update_ai has
\* been called at the current instant, regular that it had been called at
\* every instant before, and selected_at, per entity, when the entity last
\* picked a target (Entity::new picks the first one).  parentless is the
\* number of events of the tick in which a collider had no parent body.
NoHistory ==
    [op |-> "none", hits |-> <<>>, marks |-> <<>>, removed |-> <<>>,
     reaped |-> <<>>, cleared |-> 0, placed |-> {}, commands |-> {},
     ai |-> <<>>, parentless |-> 0]

\* conn[a] is the handler of the connection from address a: pc is where its
\* thread is in run (check: at check_timeout; read: in read_line; line: in
\* the loop of handle_received_message, pending holding the sub-commands
\* not yet processed; locked: in process_message holding the world lock;
\* reply: at writeln!; done: run has returned; panicked), previous_time the
\* field of that name, shut whether the handler has shut the socket down,
\* dropped whether the connection is gone (the peer has reset it or has
\* closed after the shutdown), so that peer_addr and shutdown fail.
\* entity and quit are history: the handle of the entity created for the
\* connection, and whether a QUIT sub-command has been handled.
NoConn ==
    [pc |-> "none", previous_time |-> 0, shut |-> FALSE, dropped |-> FALSE,
     entity |-> NoBody, pending |-> <<>>, reply |-> "", quit |-> FALSE,
     found |-> 0]

\* The threads that take the world lock Arc<Mutex<GameLogic>>: the UI thread
\* and the handler thread of each connection; Free when nobody holds it.
Free == [thread |-> "none", addr |-> 0]
UiThread == [thread |-> "ui", addr |-> 0]
Handler(a) == [thread |-> "handler", addr |-> a]

lock_always_available(l) == TRUE

\* Mutex::lock returns only when no thread holds the lock.
lock_available(l) == l = Free

\* PhysicsEngine::new: the collider arena holds no obstacle collider; next
\* is the next handle it hands out.
NoColliders == [live |-> {}, next |-> 1]

\* GameLogic::new, ServerThread in main: an empty world, an empty map.
Init ==
    /\ entities = <<>>
    /\ bullets = <<>>
    /\ bodies = {}
    /\ nextHandle = 1
    /\ now = 0
    /\ client_entity_map = {}
    /\ conn = [a \in Addrs |-> NoConn]
    /\ collision_events = <<>>
    /\ pc = "idle"
    /\ panicked = FALSE
    /\ lock = Free
    /\ last = NoHistory
    /\ obstacles = <<>>
    /\ colliders = NoColliders
    /\ map_lock = Free

\* The UI thread is between two frames and no thread has panicked.
Unlocked == pc = "idle" /\ ~panicked

\* Time passes: the clock moves on to the next instant.
AdvanceTime ==
    /\ Unlocked
    /\ \E t \in Times :
         /\ t > now /\ t <= MaxClock
         /\ \A u \in Times : u > now => t <= u
         /\ now' = t
    /\ last' = NoHistory
    /\ UNCHANGED <<obstacles, colliders, map_lock>>
    /\ UNCHANGED <<entities, bullets, bodies, nextHandle,
                   client_entity_map, conn, collision_events, pc, panicked,
                   lock>>

\* GameUI::show_menu, "Add Entity" and "Add AI".
AddEntity(is_ai) ==
    /\ Unlocked
    /\ lock_available(lock)
    /\ Len(entities) < MaxEntities
    /\ nextHandle <= MaxHandles
    /\ SetWorld(add_entity(CurrentWorld, is_ai, now))
    /\ last' = NoHistory
    /\ UNCHANGED <<obstacles, colliders, map_lock>>
    /\ UNCHANGED <<now, client_entity_map, conn, collision_events,
                   pc, panicked, lock>>

\* GameLogic::reset_simulation: scores to 0, every bullet body removed and
\* the bullet list cleared, entities repositioned (a body lookup each).
reset_simulation(W) ==
    World([i \in 1..Len(W.entities) |-> [W.entities[i] EXCEPT !.score = 0]],
          <<>>,
          W.bodies \ {W.bullets[k].handle : k \in 1..Len(W.bullets)},
          W.next)

\* GameLogic::reposition_entities indexes bodies[entity.handle], which
\* panics on a handle that is not in the set.
reposition_fails(W) ==
    \E i \in 1..Len(W.entities) : W.entities[i].handle \notin W.bodies

reposition_draws_wide == {<<0 - 10, 10>>, <<1190, 990>>}

\* GameLogic::reposition_entities draws x from 10.0..1190.0 and y from
\* 10.0..990.0 for each entity; the ends of the two ranges stand for the
\* draws.
reposition_draws == {<<10, 10>>, <<1189, 989>>}

\* GameUI::show_menu, "Reset Simulation".
ResetSimulation ==
    /\ Unlocked
    /\ lock_available(lock)
    /\ SetWorld(reset_simulation(CurrentWorld))
    /\ panicked' = reposition_fails(reset_simulation(CurrentWorld))
    /\ last' = [NoHistory EXCEPT
                  !.op = "reset",
                  !.cleared = Len(bullets),
                  !.placed = IF entities = <<>> THEN {} ELSE reposition_draws]
    /\ UNCHANGED <<obstacles, colliders, map_lock>>
    /\ UNCHANGED <<now, client_entity_map, conn, collision_events, pc,
                   lock>>

\* The random draws of update_ai (seconds 1.0 .. 3.0, here in ms).  A draw
\* is only enumerated where it can matter: for an AI entity whose last_shot
\* is more than 1.0 s old.
Draws == {1000, 2999}

DrawChoices(ents, clock) ==
    {d \in [1..Len(ents) -> Draws] :
        \A i \in 1..Len(ents) :
            ~(ents[i].is_ai /\ elapsed_ms(ents[i].last_shot, clock) > 1000)
                => d[i] = 1000}

\* The colliders of the world by parent body, and the events one physics
\* step may raise: distinct pairs of them with at least one body, each pair
\* at most once per step.  A pair raises an event only when one of its two
\* colliders has ActiveEvents::COLLISION_EVENTS: every entity has it
\* (Entity::new), a bullet has it or not, the boundaries do not.
\* handle_collisions treats the two colliders of an event alike and the
\* events independently of their order, so a pair is listed larger handle
\* first and the events of a step in ascending order.
BulletHandles(W) == {W.bullets[k].handle : k \in 1..Len(W.bullets)}

Colliders(W) ==
    {W.entities[i].handle : i \in 1..Len(W.entities)}
      \cup BulletHandles(W) \cup {NoBody}

ActiveColliders(W) ==
    {W.entities[i].handle : i \in 1..Len(W.entities)}
      \cup {W.bullets[k].handle : k \in {l \in 1..Len(W.bullets) :
                                            W.bullets[l].active_events}}

Pairs(W) ==
    {<<a, b>> \in Colliders(W) \X Colliders(W) :
        a > b /\ (a \in ActiveColliders(W) \/ b \in ActiveColliders(W))}

\* The pairs in which a bullet takes part.  Events between two entities or
\* between an entity and a boundary are not enumerated: handle_collisions
\* finds no bullet in them and goes on to the next event.
BulletPairs(W) ==
    {p \in Pairs(W) : p[1] \in BulletHandles(W) \/ p[2] \in BulletHandles(W)}

PairLess(p, q) == p[1] < q[1] \/ (p[1] = q[1] /\ p[2] < q[2])

\* Up to n events.
EventSeqs(W, n) ==
    {ev \in UNION {[1..k -> BulletPairs(W)] : k \in 0..n} :
        \A i \in 1..(Len(ev) - 1) : PairLess(ev[i], ev[i + 1])}

\* What one physics step may leave: any events with every bullet inside the
\* arena, or at most MaxEventsMoving events with the bullets anywhere.
StepOutcomes(W) ==
    ({[k \in 1..Len(W.bullets) |-> InArena]} \X EventSeqs(W, MaxEvents))
      \cup ([1..Len(W.bullets) -> Positions] \X EventSeqs(W, MaxEventsMoving))

\* GameUI::update, first part, under the world lock: update_ai, then in
\* step apply_actuators and physics.step().
TickBegin ==
    /\ Unlocked
    /\ lock_available(lock)
    /\ last' = [NoHistory EXCEPT
                  !.op = "actuate",
                  !.commands = velocity_commands(CurrentWorld)]
    /\ \E draw \in DrawChoices(entities, now) :
         LET W1 == apply_actuators(update_ai(CurrentWorld, draw, now), now)
         IN /\ Len(W1.bullets) <= MaxBullets
            /\ W1.next <= MaxHandles + 1
            /\ \E out \in StepOutcomes(W1) :
                 /\ SetWorld(physics_step(W1, out[1]))
                 /\ collision_events' = out[2]
    /\ pc' = "collide"
    /\ lock' = UiThread
    /\ UNCHANGED <<obstacles, colliders, map_lock>>
    /\ UNCHANGED <<now, client_entity_map, conn, panicked>>

\* The events in which one of the two colliders has no parent body.
Parentless(events) ==
    {k \in 1..Len(events) : events[k][1] = NoBody \/ events[k][2] = NoBody}

\* The state GameLogic::step leaves, S being the result of
\* step_after_physics, with the tick's history.
Resolved(S) ==
    /\ SetWorld(S.W)
    /\ panicked' = S.failed
    /\ last' = [NoHistory EXCEPT
                  !.op = "tick",
                  !.hits = S.col.hits,
                  !.marks = S.col.marks,
                  !.removed = S.col.removed,
                  !.reaped = S.reaped,
                  !.parentless = Cardinality(Parentless(collision_events))]

\* GameUI::update, second part, still under the lock: the rest of step.
TickResolve ==
    /\ pc = "collide" /\ ~panicked
    /\ Resolved(step_after_physics(CurrentWorld, collision_events, now))
    /\ collision_events' = <<>>
    /\ pc' = "frame"
    /\ lock' = Free
    /\ UNCHANGED <<obstacles, colliders, map_lock>>
    /\ UNCHANGED <<now, client_entity_map, conn>>

\* GameUI::update, last part: the frame is drawn under the lock, taken
\* again, from the lists (display_entities indexes bodies[entity.handle], the plot
\* bodies[bullet.handle]).
TickEnd ==
    /\ pc = "frame" /\ ~panicked
    /\ lock_available(lock)
    /\ pc' = "idle"
    /\ panicked' = (\/ reposition_fails(CurrentWorld)
                    \/ \E k \in 1..Len(bullets) : bullets[k].handle \notin bodies)
    /\ last' = NoHistory
    /\ UNCHANGED <<obstacles, colliders, map_lock>>
    /\ UNCHANGED <<entities, bullets, bodies, nextHandle, now,
                   client_entity_map, conn, collision_events, lock>>

\* ------------------------------------------------------ client handlers
\* client_entity_map is a set of <<addr, id>> pairs with at most one pair
\* per address.  HashMap::get, insert, remove:
map_has(m, addr) == \E p \in m : p[1] = addr
map_get(m, addr) == (CHOOSE p \in m : p[1] = addr)[2]
map_remove(m, addr) == {p \in m : p[1] # addr}
map_insert(m, addr, id) == map_remove(m, addr) \cup {<<addr, id>>}

\* The handles of the entities of W that are missing from W2 or differ there.
Touched(W, W2) ==
    {W.entities[i].handle : i \in
        {j \in 1..Len(W.entities) :
            \A k \in 1..Len(W2.entities) : W2.entities[k] # W.entities[j]}}

\* SystemTime::now() since the epoch, as_secs().
now_secs(clock) == as_secs(clock)

\* ------------------------------------------------ the text of the protocol
\* A sub-command is [code, args]: what split(ARGUMENT_SEP) gives, the first
\* part trimmed.  The characters of an argument string:
chars(str) == [i \in 1..Len(str) |-> SubSeq(str, i, i)]

\* str::trim.
RECURSIVE trim_start(_)
trim_start(cs) ==
    IF cs # <<>> /\ Head(cs) = " " THEN trim_start(Tail(cs)) ELSE cs

RECURSIVE trim_end(_)
trim_end(cs) ==
    IF cs # <<>> /\ cs[Len(cs)] = " "
    THEN trim_end(SubSeq(cs, 1, Len(cs) - 1)) ELSE cs

trim(cs) == trim_end(trim_start(cs))

\* char::to_digit: the value of a digit, 99 for any other character.
digit_value(c) ==
    CASE c = "0" -> 0 [] c = "1" -> 1 [] c = "2" -> 2 [] c = "3" -> 3
      [] c = "4" -> 4 [] c = "5" -> 5 [] c = "6" -> 6 [] c = "7" -> 7
      [] c = "8" -> 8 [] c = "9" -> 9
      [] c \in {"a", "A"} -> 10 [] c \in {"b", "B"} -> 11
      [] c \in {"c", "C"} -> 12 [] c \in {"d", "D"} -> 13
      [] c \in {"e", "E"} -> 14 [] c \in {"f", "F"} -> 15
      [] OTHER -> 99

\* The digit loop of from_str_radix: the value of the digits cs after acc,
\* or -1 on a character that is no digit of the radix or on a value above
\* max.
RECURSIVE digits_value(_, _, _, _)
digits_value(cs, radix, max, acc) ==
    IF acc > max THEN 0 - 1
    ELSE IF cs = <<>> THEN acc
    ELSE IF digit_value(Head(cs)) >= radix THEN 0 - 1
    ELSE digits_value(Tail(cs), radix, max, acc * radix + digit_value(Head(cs)))

\* from_str_radix for an unsigned type: one leading "+" is accepted, the
\* empty string and a lone sign are errors.  The result is [ok, val].
parse_unsigned(cs, radix, max) ==
    IF cs # <<>> /\ Head(cs) = "+"
    THEN [ok |-> Tail(cs) # <<>> /\ digits_value(Tail(cs), radix, max, 0) >= 0,
          val |-> digits_value(Tail(cs), radix, max, 0)]
    ELSE [ok |-> cs # <<>> /\ digits_value(cs, radix, max, 0) >= 0,
          val |-> digits_value(cs, radix, max, 0)]

\* u32::from_str_radix(s, 16); the strings of this model have at most seven
\* digits, so the bound of u32 is never reached.
MaxHex == 268435455
from_str_radix(cs) == parse_unsigned(cs, 16, MaxHex)

\* str::parse::<u8>.
parse_u8(cs) == parse_unsigned(cs, 10, 255)

\* The part of cs before the first "." and the part after it.
RECURSIVE before_point(_)
before_point(cs) ==
    IF cs = <<>> \/ Head(cs) = "." THEN <<>>
    ELSE <<Head(cs)>> \o before_point(Tail(cs))

after_point(cs) ==
    IF Len(before_point(cs)) = Len(cs) THEN <<>>
    ELSE SubSeq(cs, Len(before_point(cs)) + 2, Len(cs))

\* The hundredths that the fraction digits cs stand for.
hundredths(cs) ==
    IF cs = <<>> THEN 0
    ELSE IF Len(cs) = 1 THEN 10 * digit_value(cs[1])
    ELSE 10 * digit_value(cs[1]) + digit_value(cs[2])

all_decimal(cs) == \A i \in 1..Len(cs) : digit_value(cs[i]) < 10

lower(c) ==
    CASE c = "N" -> "n" [] c = "A" -> "a" [] c = "I" -> "i" [] c = "F" -> "f"
      [] c = "T" -> "t" [] c = "Y" -> "y" [] OTHER -> c

\* f32::from_str without its sign: "nan", "inf" and "infinity" in any case,
\* or decimal digits with at most one "." and at least one digit (the
\* exponent form is not used by the strings of this model).
parse_unsigned_f32(cs) ==
    IF [i \in 1..Len(cs) |-> lower(cs[i])] = <<"n", "a", "n">>
    THEN [ok |-> TRUE, val |-> NaN]
    ELSE IF [i \in 1..Len(cs) |-> lower(cs[i])]
               \in {<<"i", "n", "f">>,
                    <<"i", "n", "f", "i", "n", "i", "t", "y">>}
    THEN [ok |-> TRUE, val |-> Infinity]
    ELSE [ok |-> /\ Len(before_point(cs)) + Len(after_point(cs)) > 0
                 /\ all_decimal(before_point(cs))
                 /\ all_decimal(after_point(cs)),
          val |-> 100 * digits_value(before_point(cs), 10, Infinity, 0)
                    + hundredths(after_point(cs))]

\* str::parse::<f32>: an optional sign, then the above.  [ok, val].
parse_f32(cs) ==
    IF cs # <<>> /\ Head(cs) = "-"
    THEN [ok |-> parse_unsigned_f32(Tail(cs)).ok,
          val |-> IF parse_unsigned_f32(Tail(cs)).val = NaN THEN NaN
                  ELSE 0 - parse_unsigned_f32(Tail(cs)).val]
    ELSE IF cs # <<>> /\ Head(cs) = "+" THEN parse_unsigned_f32(Tail(cs))
    ELSE parse_unsigned_f32(cs)

\* The three bytes taken in the order blue, green, red.
rgb_of_hex_reversed(hex) ==
    <<hex % 256, (hex \div 256) % 256, (hex \div 65536) % 256>>

\* The bytes of the colour in the value of a hexadecimal argument.
rgb_of_hex(hex) ==
    <<(hex \div 65536) % 256, (hex \div 256) % 256, hex % 256>>

ACTUATORS ==
    {"ACTUATOR_MOTOR_LEFT", "ACTUATOR_MOTOR_RIGHT", "ACTUATOR_GUN_TRIGGER",
     "ACTUATOR_GUN_TRAVERSE"}

actuator_field(code) ==
    CASE code = "ACTUATOR_MOTOR_LEFT" -> "motor_left"
      [] code = "ACTUATOR_MOTOR_RIGHT" -> "motor_right"
      [] code = "ACTUATOR_GUN_TRIGGER" -> "gun_trigger"
      [] code = "ACTUATOR_GUN_TRAVERSE" -> "gun_traverse"

error_reply(text) == [kind |-> "error", field |-> "", val |-> 0, reply |-> text]
set_reply(field, val, text) ==
    [kind |-> "set", field |-> field, val |-> val, reply |-> text]

\* The SET_COLOR arm of process_message up to the world lock.
parse_color(args) ==
    IF args = <<>> THEN error_reply("Missing color value")
    ELSE IF Len(args) = 1
    THEN IF from_str_radix(chars(args[1])).ok
         THEN set_reply("color", rgb_of_hex(from_str_radix(chars(args[1])).val),
                        "Color set to RGB")
         ELSE error_reply("Invalid color hex value")
    ELSE IF Len(args) = 3
    THEN IF \A i \in 1..3 : parse_u8(trim(chars(args[i]))).ok
         THEN set_reply("color",
                        [i \in 1..3 |-> parse_u8(trim(chars(args[i]))).val],
                        "Color set to RGB")
         ELSE error_reply("Invalid RGB values")
    ELSE error_reply("Invalid color format. Use hex or R=G=B")

\* The match of process_message up to the world lock: either the reply is
\* known (kind "error"), or a field of the entity is to be set under the
\* lock (kind "set"; reply is the fixed part of the confirmation).
parse_message(cmd) ==
    CASE cmd.code = "SET_NAME" ->
           IF cmd.args = <<>> THEN error_reply("Missing name")
           ELSE set_reply("name", cmd.args[1], "Name set to")
      [] cmd.code = "SET_COLOR" -> parse_color(cmd.args)
      [] cmd.code \in ACTUATORS ->
           IF cmd.args = <<>> THEN error_reply("Missing value")
           ELSE IF parse_f32(trim(chars(cmd.args[1]))).ok
           THEN set_reply(actuator_field(cmd.code),
                          parse_f32(trim(chars(cmd.args[1]))).val, "set to")
           ELSE error_reply("Invalid float value")
      [] OTHER -> error_reply("Unknown command")

\* The id bound to the peer address, 0 without binding.
bound_id(m, addr) == IF map_has(m, addr) THEN map_get(m, addr) ELSE 0

set_field_unchecked(W, entity_id, field, val, text) ==
    [W |-> W, reply |-> text]

\* Under the world lock: get_entity_mut and the assignment, or the reply
\* "Entity not found".  The result is [W, reply].
set_field(W, entity_id, field, val, text) ==
    IF get_entity_mut(W.entities, entity_id) = 0
    THEN [W |-> W, reply |-> "Entity not found"]
    ELSE [W |-> [W EXCEPT
                   !.entities[get_entity_mut(W.entities, entity_id)][field] = val],
          reply |-> text]

\* ClientHandler::process_message for a sub-command other than QUIT, after
\* the peer address is known.  The result is [W, reply].
process_message(W, m, addr, cmd) ==
    IF parse_message(cmd).kind = "set"
    THEN set_field(W, bound_id(m, addr), parse_message(cmd).field,
                   parse_message(cmd).val, parse_message(cmd).reply)
    ELSE [W |-> W, reply |-> parse_message(cmd).reply]

\* --------------------------------------------------------- ClientHandler
\* The accept loop of ServerThread: a new connection gets an entity from
\* add_entity, its address is bound to the entity's id, and a ClientHandler
\* is created (previous_time = now) and run.
Connect(a) ==
    /\ Unlocked
    /\ lock_available(lock)
    /\ lock_available(map_lock)
    /\ conn[a].pc = "none"
    /\ Len(entities) < MaxEntities
    /\ nextHandle <= MaxHandles
    /\ SetWorld(add_entity(CurrentWorld, FALSE, now))
    /\ client_entity_map' =
          map_insert(client_entity_map, a, next_entity_id(entities))
    /\ conn' = [conn EXCEPT ![a] = [NoConn EXCEPT
                                      !.pc = "check",
                                      !.previous_time = now_secs(now),
                                      !.entity = nextHandle]]
    /\ last' = NoHistory
    /\ UNCHANGED <<obstacles, colliders, map_lock>>
    /\ UNCHANGED <<now, collision_events, pc, panicked, lock>>

\* The peer closes its end after the handler has shut the socket down:
\* from then on the socket is not connected, and peer_addr and shutdown
\* fail.  (Taken only where the handler is about to look at the socket.)
PeerClose(a) ==
    /\ Unlocked
    /\ conn[a].pc \in {"check", "read", "line"}
    /\ conn[a].shut /\ ~conn[a].dropped
    /\ conn' = [conn EXCEPT ![a].dropped = TRUE]
    /\ last' = NoHistory
    /\ UNCHANGED <<obstacles, colliders, map_lock>>
    /\ UNCHANGED <<entities, bullets, bodies, nextHandle, now,
                   client_entity_map, collision_events, pc, panicked, lock>>

\* The peer resets a connection that is open, with the same effect on the
\* socket.
PeerReset(a) ==
    /\ Unlocked
    /\ conn[a].pc \in {"check", "read", "line"}
    /\ ~conn[a].shut /\ ~conn[a].dropped
    /\ conn' = [conn EXCEPT ![a].dropped = TRUE]
    /\ last' = NoHistory
    /\ UNCHANGED <<obstacles, colliders, map_lock>>
    /\ UNCHANGED <<entities, bullets, bodies, nextHandle, now,
                   client_entity_map, collision_events, pc, panicked, lock>>

\* The binding is taken out of the map and, when there was one, the entity
\* with the bound id is removed: the common part of check_timeout and
\* handle_disconnection.  The result is the new world.
release_binding(W, m, addr) ==
    IF map_has(m, addr) THEN remove_entity_by_id(W, map_get(m, addr)) ELSE W

\* ClientHandler::check_timeout's test.
timed_out(previous_time, clock) ==
    now_secs(clock) - previous_time > CONNECTION_TIMEOUT_DELAY

\* The handler's state once run has returned (how = "done") or its thread
\* has panicked; of its fields only shut, entity and quit are looked at
\* from then on.
stopped(c, how) ==
    [NoConn EXCEPT !.pc = how, !.shut = c.shut, !.entity = c.entity,
                   !.quit = c.quit]

\* ClientHandler::run, top of the loop: check_timeout returns false.
CheckTimeout(a) ==
    /\ Unlocked
    /\ conn[a].pc = "check"
    /\ ~timed_out(conn[a].previous_time, now)
    /\ conn' = [conn EXCEPT ![a].pc = "read"]
    /\ last' = NoHistory
    /\ UNCHANGED <<obstacles, colliders, map_lock>>
    /\ UNCHANGED <<entities, bullets, bodies, nextHandle, now,
                   client_entity_map, collision_events, pc, panicked, lock>>

\* check_timeout fires: peer_addr().unwrap(), the binding and the entity
\* go (map lock, then world lock), peer_addr().unwrap() for the message,
\* shutdown(Both).unwrap(), and run ends.  The calls fail on a socket that
\* is not connected, and the first unwrap panics before anything is
\* removed.
Timeout(a) ==
    /\ Unlocked
    /\ conn[a].pc = "check"
    /\ timed_out(conn[a].previous_time, now)
    /\ IF conn[a].dropped
       THEN /\ conn' = [conn EXCEPT ![a] = stopped(conn[a], "panicked")]
            /\ UNCHANGED <<entities, bullets, bodies, nextHandle,
                           client_entity_map>>
       ELSE /\ lock_available(map_lock)
            /\ map_has(client_entity_map, a) => lock_available(lock)
            /\ SetWorld(release_binding(CurrentWorld, client_entity_map, a))
            /\ client_entity_map' = map_remove(client_entity_map, a)
            /\ conn' = [conn EXCEPT ![a] =
                          [stopped(conn[a], "done") EXCEPT !.shut = TRUE]]
    /\ last' = NoHistory
    /\ UNCHANGED <<obstacles, colliders, map_lock>>
    /\ UNCHANGED <<now, collision_events, pc, panicked, lock>>

\* A handle_disconnection that removes the entity and leaves the binding.
handle_disconnection_keeps_binding(W, m, addr, peer_ok, shut) ==
    IF ~peer_ok THEN [W |-> W, map |-> m, shut |-> shut]
    ELSE [W |-> release_binding(W, m, addr), map |-> m, shut |-> TRUE]

\* ClientHandler::handle_disconnection.  peer_ok is the outcome of
\* socket.peer_addr(): on Err nothing is done.  The result is
\* [W, map, shut].
handle_disconnection(W, m, addr, peer_ok, shut) ==
    IF ~peer_ok THEN [W |-> W, map |-> m, shut |-> shut]
    ELSE [W |-> release_binding(W, m, addr), map |-> map_remove(m, addr),
          shut |-> TRUE]

\* handle_disconnection run by the handler of a, which then goes on as c.
Disconnect(a, c) ==
    /\ ~conn[a].dropped => lock_available(map_lock)
    /\ (~conn[a].dropped /\ map_has(client_entity_map, a))
          => lock_available(lock)
    /\ SetWorld(handle_disconnection(CurrentWorld, client_entity_map, a,
                                     ~conn[a].dropped, conn[a].shut).W)
    /\ client_entity_map' =
          handle_disconnection(CurrentWorld, client_entity_map, a,
                               ~conn[a].dropped, conn[a].shut).map
    /\ conn' = [conn EXCEPT ![a] =
                  [c EXCEPT !.shut =
                      handle_disconnection(CurrentWorld, client_entity_map, a,
                                           ~conn[a].dropped, conn[a].shut).shut]]

\* The sub-commands.
Cmd(code, args) == [code |-> code, args |-> args]
QUIT == Cmd("QUIT", <<>>)

\* The lines clients send while the world is simulated (Spec); there the
\* connections stay connected until the handler shuts them down.
Lines ==
    {<<Cmd("ACTUATOR_GUN_TRIGGER", <<"0">>)>>,
     <<Cmd("ACTUATOR_GUN_TRIGGER", <<"1">>)>>,
     <<QUIT>>,
     <<Cmd("QUIT", <<"x">>), Cmd("HELLO", <<>>)>>}

\* ClientHandler::run, read_line returned a line of more than one byte:
\* handle_received_message splits it into its sub-commands.
ReadLine(a, line) ==
    /\ Unlocked
    /\ conn[a].pc = "read" /\ ~conn[a].shut /\ ~conn[a].dropped
    /\ conn' = [conn EXCEPT ![a].pc = "line", ![a].pending = line]
    /\ last' = NoHistory
    /\ UNCHANGED <<obstacles, colliders, map_lock>>
    /\ UNCHANGED <<entities, bullets, bodies, nextHandle, now,
                   client_entity_map, collision_events, pc, panicked, lock>>

\* The handler's state after the sub-command at the head of pending:
\* previous_time is set to the current time and the loop goes to the next
\* sub-command, or back into run when there is none.
next_message(c, clock) ==
    [c EXCEPT !.previous_time = now_secs(clock),
              !.pending = Tail(c.pending),
              !.reply = "",
              !.pc = IF Tail(c.pending) = <<>> THEN "check" ELSE "line"]

\* handle_received_message, the sub-command is exactly QUIT:
\* handle_disconnection, and return (the rest of the line is dropped,
\* previous_time is not set); the loop of run goes on.
QuitLine(a) ==
    /\ Unlocked
    /\ conn[a].pc = "line"
    /\ Head(conn[a].pending) = QUIT
    /\ Disconnect(a, [conn[a] EXCEPT !.pc = "check", !.pending = <<>>,
                                     !.quit = TRUE])
    /\ last' = NoHistory
    /\ UNCHANGED <<obstacles, colliders, map_lock>>
    /\ UNCHANGED <<now, collision_events, pc, panicked, lock>>

\* process_message, first line: peer_addr().unwrap() on a socket that is
\* not connected panics.
PeerAddrFails(a) ==
    /\ Unlocked
    /\ conn[a].pc = "line"
    /\ Head(conn[a].pending) # QUIT
    /\ conn[a].dropped
    /\ conn' = [conn EXCEPT ![a] = stopped(conn[a], "panicked")]
    /\ last' = NoHistory
    /\ UNCHANGED <<obstacles, colliders, map_lock>>
    /\ UNCHANGED <<entities, bullets, bodies, nextHandle, now,
                   client_entity_map, collision_events, pc, panicked, lock>>

\* process_message, the code is QUIT (and the sub-command has arguments):
\* handle_disconnection, return without a reply; handle_received_message
\* sets previous_time and goes on with the rest of the line.
QuitMessage(a) ==
    /\ Unlocked
    /\ conn[a].pc = "line"
    /\ Head(conn[a].pending) # QUIT
    /\ ~conn[a].dropped
    /\ Head(conn[a].pending).code = "QUIT"
    /\ Disconnect(a, [next_message(conn[a], now) EXCEPT !.quit = TRUE])
    /\ last' = NoHistory
    /\ UNCHANGED <<obstacles, colliders, map_lock>>
    /\ UNCHANGED <<now, collision_events, pc, panicked, lock>>

\* process_message, an arm that ends without the world lock: the reply is
\* an error text.
ErrorReply(a) ==
    /\ Unlocked
    /\ conn[a].pc = "line"
    /\ Head(conn[a].pending).code # "QUIT"
    /\ ~conn[a].dropped
    /\ parse_message(Head(conn[a].pending)).kind = "error"
    /\ conn' = [conn EXCEPT
                  ![a].pc = "reply",
                  ![a].reply = parse_message(Head(conn[a].pending)).reply]
    /\ last' = NoHistory
    /\ UNCHANGED <<obstacles, colliders, map_lock>>
    /\ UNCHANGED <<entities, bullets, bodies, nextHandle, now,
                   client_entity_map, collision_events, pc, panicked, lock>>

\* process_message, an arm that sets a field: game_logic.lock(), which
\* waits for nothing but the lock, whatever the UI thread is doing.
LockWorld(a) ==
    /\ ~panicked
    /\ conn[a].pc = "line"
    /\ Head(conn[a].pending).code # "QUIT"
    /\ ~conn[a].dropped
    /\ parse_message(Head(conn[a].pending)).kind = "set"
    /\ lock_available(lock)
    /\ lock' = Handler(a)
    /\ conn' = [conn EXCEPT ![a].pc = "locked"]
    /\ last' = NoHistory
    /\ UNCHANGED <<obstacles, colliders, map_lock>>
    /\ UNCHANGED <<entities, bullets, bodies, nextHandle, now,
                   client_entity_map, collision_events, pc, panicked>>

drop_guard_after_reply(l) == l

\* The MutexGuard logic goes out of scope at the end of the block of its
\* arm, which is before writeln!.
drop_guard(l) == Free

\* process_message under the world lock: get_entity_mut and the assignment
\* or "Entity not found"; the guard is dropped at the end of the block.
SetField(a) ==
    /\ ~panicked
    /\ conn[a].pc = "locked"
    /\ SetWorld(process_message(CurrentWorld, client_entity_map, a,
                                Head(conn[a].pending)).W)
    /\ conn' = [conn EXCEPT
                  ![a].pc = "reply",
                  ![a].reply = process_message(CurrentWorld, client_entity_map,
                                               a, Head(conn[a].pending)).reply]
    /\ lock' = drop_guard(lock)
    /\ last' = NoHistory
    /\ UNCHANGED <<obstacles, colliders, map_lock>>
    /\ UNCHANGED <<now, client_entity_map, collision_events, pc, panicked>>

\* process_message, last lines: writeln! and flush, whose results are
\* ignored; then handle_received_message sets previous_time.
WriteReply(a) ==
    /\ Unlocked
    /\ conn[a].pc = "reply"
    /\ conn' = [conn EXCEPT ![a] = next_message(conn[a], now)]
    /\ last' = NoHistory
    /\ UNCHANGED <<obstacles, colliders, map_lock>>
    /\ UNCHANGED <<entities, bullets, bodies, nextHandle, now,
                   client_entity_map, collision_events, pc, panicked, lock>>

\* ClientHandler::run, read_line returned at most one byte (end of stream,
\* which is also what a socket that was shut down gives):
\* handle_disconnection, and run ends.
ReadEnd(a) ==
    /\ Unlocked
    /\ conn[a].pc = "read"
    /\ Disconnect(a, stopped(conn[a], "done"))
    /\ last' = NoHistory
    /\ UNCHANGED <<obstacles, colliders, map_lock>>
    /\ UNCHANGED <<now, collision_events, pc, panicked, lock>>

\* ClientHandler::run, read_line returned Err: nothing is done and the loop
\* goes round to check_timeout.
ReadErr(a) ==
    /\ Unlocked
    /\ conn[a].pc = "read" /\ ~conn[a].shut
    /\ conn' = [conn EXCEPT ![a].pc = "check"]
    /\ last' = NoHistory
    /\ UNCHANGED <<obstacles, colliders, map_lock>>
    /\ UNCHANGED <<entities, bullets, bodies, nextHandle, now,
                   client_entity_map, collision_events, pc, panicked, lock>>

Next ==
    \/ AdvanceTime
    \/ \E is_ai \in BOOLEAN : AddEntity(is_ai)
    \/ ResetSimulation
    \/ TickBegin
    \/ TickResolve
    \/ TickEnd
    \/ \E a \in Addrs : Connect(a)
    \/ \E a \in Addrs : PeerClose(a)
    \/ \E a \in Addrs : CheckTimeout(a)
    \/ \E a \in Addrs : Timeout(a)
    \/ \E a \in Addrs, line \in Lines : ReadLine(a, line)
    \/ \E a \in Addrs : ReadEnd(a)
    \/ \E a \in Addrs : ReadErr(a)
    \/ \E a \in Addrs : QuitLine(a)
    \/ \E a \in Addrs : PeerAddrFails(a)
    \/ \E a \in Addrs : QuitMessage(a)
    \/ \E a \in Addrs : ErrorReply(a)
    \/ \E a \in Addrs : LockWorld(a)
    \/ \E a \in Addrs : SetField(a)
    \/ \E a \in Addrs : WriteReply(a)

Spec == Init /\ [][Next]_vars

\* ------------------------------------------- the protocol on its own
\* The handler with the whole range of sub-commands, the world being left
\* alone by the UI thread.  The lines a client sends:
ProtocolCommands ==
    {Cmd("SET_NAME", <<>>), Cmd("SET_NAME", <<"x">>),
     Cmd("SET_COLOR", <<>>), Cmd("SET_COLOR", <<"">>),
     Cmd("SET_COLOR", <<"GG">>), Cmd("SET_COLOR", <<"FF00FF">>),
     Cmd("SET_COLOR", <<"255", "0">>), Cmd("SET_COLOR", <<"255", "0", "255">>),
     Cmd("SET_COLOR", <<"256", "0", "0">>),
     Cmd("SET_COLOR", <<"1", "2", "0", "0">>),
     Cmd("ACTUATOR_GUN_TRIGGER", <<>>), Cmd("ACTUATOR_GUN_TRIGGER", <<"abc">>),
     Cmd("ACTUATOR_GUN_TRIGGER", <<"nan">>),
     Cmd("ACTUATOR_GUN_TRIGGER", <<"1">>),
     Cmd("ACTUATOR_GUN_TRAVERSE", <<"0.25">>),
     Cmd("ACTUATOR_MOTOR_LEFT", <<"2">>),
     Cmd("ACTUATOR_MOTOR_RIGHT", <<"abc">>),
     Cmd("HELLO", <<>>)}

ProtocolLines ==
    {<<c>> : c \in ProtocolCommands}
      \cup {<<QUIT>>,
            <<Cmd("QUIT", <<"x">>), Cmd("SET_NAME", <<"x">>)>>,
            <<Cmd("HELLO", <<>>), Cmd("ACTUATOR_GUN_TRIGGER", <<"1">>)>>}

\* A state the simulation reaches (Connect, AddEntity(TRUE), AdvanceTime,
\* one tick, ResetSimulation, CheckTimeout): the connection from address 1 got the entity
\* with id 1, an AI entity was added, and one second later the AI's bullet
\* killed entity 1 in a tick; the handler of the connection waits in
\* read_line and the binding 1 -> 1 is still in the map.
AfterDeath ==
    /\ entities = <<NewEntity(2, TRUE, 2, 1000)>>
    /\ bullets = <<>>
    /\ bodies = {2}
    /\ nextHandle = 4
    /\ now = 1000
    /\ client_entity_map = {<<1, 1>>}
    /\ conn = [a \in Addrs |->
                 IF a = 1 THEN [NoConn EXCEPT !.pc = "read", !.entity = 1]
                 ELSE NoConn]
    /\ collision_events = <<>>
    /\ pc = "idle"
    /\ panicked = FALSE
    /\ lock = Free
    /\ last = NoHistory
    /\ obstacles = <<>>
    /\ colliders = NoColliders
    /\ map_lock = Free

ProtocolInit == Init \/ AfterDeath

ProtocolNext ==
    \/ AdvanceTime
    \/ \E a \in Addrs : Connect(a)
    \/ \E a \in Addrs : PeerClose(a)
    \/ \E a \in Addrs : PeerReset(a)
    \/ \E a \in Addrs : CheckTimeout(a)
    \/ \E a \in Addrs : Timeout(a)
    \/ \E a \in Addrs, line \in ProtocolLines : ReadLine(a, line)
    \/ \E a \in Addrs : ReadEnd(a)
    \/ \E a \in Addrs : ReadErr(a)
    \/ \E a \in Addrs : QuitLine(a)
    \/ \E a \in Addrs : PeerAddrFails(a)
    \/ \E a \in Addrs : QuitMessage(a)
    \/ \E a \in Addrs : ErrorReply(a)
    \/ \E a \in Addrs : LockWorld(a)
    \/ \E a \in Addrs : SetField(a)
    \/ \E a \in Addrs : WriteReply(a)

ProtocolSpec == ProtocolInit /\ [][ProtocolNext]_vars

\* The steps of the handler thread of a that wait for nothing but the
\* scheduler and the world lock.
HandlerStep(a) ==
    \/ CheckTimeout(a)
    \/ Timeout(a)
    \/ QuitLine(a)
    \/ PeerAddrFails(a)
    \/ QuitMessage(a)
    \/ ErrorReply(a)
    \/ LockWorld(a)
    \/ SetField(a)
    \/ WriteReply(a)

\* Time passes, and every handler thread that can run does run; what the
\* client sends and when (ReadLine, ReadEnd, ReadErr, PeerClose, PeerReset)
\* is up to the client.
FairProtocolSpec ==
    /\ ProtocolSpec
    /\ WF_vars(AdvanceTime)
    /\ \A a \in Addrs : WF_vars(HandlerStep(a))

\* ------------------------------------------- the actuators under the tick
\* A client that drives its entity: actuator sub-commands with values on a
\* grid of 0.0 .. 1.0 (an entity starts with 0.5), and the ticks of the UI
\* thread.
MotorValues == {"0", "1"}
TraverseValues == {"0.25", "1"}

ActuatorLines ==
    {<<Cmd(code, <<v>>)>> :
        code \in {"ACTUATOR_MOTOR_LEFT", "ACTUATOR_MOTOR_RIGHT"},
        v \in MotorValues}
      \cup {<<Cmd("ACTUATOR_GUN_TRAVERSE", <<v>>)>> : v \in TraverseValues}
      \cup {<<Cmd("ACTUATOR_GUN_TRIGGER", <<"1">>)>>}

ActuatorNext ==
    \/ AdvanceTime
    \/ TickBegin
    \/ TickResolve
    \/ TickEnd
    \/ \E a \in Addrs : Connect(a)
    \/ \E a \in Addrs : CheckTimeout(a)
    \/ \E a \in Addrs : Timeout(a)
    \/ \E a \in Addrs, line \in ActuatorLines : ReadLine(a, line)
    \/ \E a \in Addrs : LockWorld(a)
    \/ \E a \in Addrs : SetField(a)
    \/ \E a \in Addrs : WriteReply(a)

ActuatorSpec == Init /\ [][ActuatorNext]_vars

\* ------------------------------------------------ the colour on its own
\* One client that sends SET_COLOR sub-commands in both forms, for every
\* colour whose components are taken from ColorGrid.  The text of a
\* component: two hexadecimal digits, or the decimal numeral.
ColorGrid == {0, 15, 16, 255}
HexDigits ==
    <<"0", "1", "2", "3", "4", "5", "6", "7", "8", "9", "A", "B", "C", "D",
      "E", "F">>
hex2(n) == HexDigits[(n \div 16) + 1] \o HexDigits[(n % 16) + 1]
decimal(n) ==
    IF n < 10 THEN HexDigits[n + 1]
    ELSE IF n < 100 THEN HexDigits[(n \div 10) + 1] \o HexDigits[(n % 10) + 1]
    ELSE HexDigits[(n \div 100) + 1] \o HexDigits[((n \div 10) % 10) + 1]
            \o HexDigits[(n % 10) + 1]

HexColor(r, g, b) == Cmd("SET_COLOR", <<hex2(r) \o hex2(g) \o hex2(b)>>)
DecimalColor(r, g, b) ==
    Cmd("SET_COLOR", <<decimal(r), decimal(g), decimal(b)>>)

ColorLines ==
    {<<HexColor(r, g, b)>> : r \in ColorGrid, g \in ColorGrid, b \in ColorGrid}
      \cup {<<DecimalColor(r, g, b)>> :
                r \in ColorGrid, g \in ColorGrid, b \in ColorGrid}

ColorNext ==
    \/ \E a \in Addrs : Connect(a)
    \/ \E a \in Addrs : CheckTimeout(a)
    \/ \E a \in Addrs, line \in ColorLines : ReadLine(a, line)
    \/ \E a \in Addrs : LockWorld(a)
    \/ \E a \in Addrs : SetField(a)
    \/ \E a \in Addrs : WriteReply(a)

ColorSpec == Init /\ [][ColorNext]_vars

\* --------------------------------------------------- update_ai on its own
\* One AI entity, added at time 0, and the frames of the UI: the clock moves
\* in steps of AiStep, and update_ai is called at an instant or not, at most
\* once.  Only update_ai acts on the world.
AiStep == 250
MaxAiClock == 4000

AiInit ==
    /\ entities = <<NewEntity(1, TRUE, 1, 0)>>
    /\ bullets = <<>>
    /\ bodies = {1}
    /\ nextHandle = 2
    /\ now = 0
    /\ client_entity_map = {}
    /\ conn = [a \in Addrs |-> NoConn]
    /\ collision_events = <<>>
    /\ pc = "idle"
    /\ panicked = FALSE
    /\ lock = Free
    /\ last = [NoHistory EXCEPT
                 !.ai = [called |-> FALSE, regular |-> TRUE,
                         selected_at |-> <<0>>]]
    /\ obstacles = <<>>
    /\ colliders = NoColliders
    /\ map_lock = Free

AiAdvanceTime ==
    /\ Unlocked
    /\ now + AiStep <= MaxAiClock
    /\ now' = now + AiStep
    /\ last' = [last EXCEPT !.op = "none",
                            !.ai.called = FALSE,
                            !.ai.regular = last.ai.regular /\ last.ai.called]
    /\ UNCHANGED <<obstacles, colliders, map_lock>>
    /\ UNCHANGED <<entities, bullets, bodies, nextHandle,
                   client_entity_map, conn, collision_events, pc, panicked,
                   lock>>

\* GameUI::update, the call game_logic.update_ai() under the world lock.
UpdateAi ==
    /\ Unlocked
    /\ lock_available(lock)
    /\ ~last.ai.called
    /\ \E draw \in DrawChoices(entities, now) :
         /\ SetWorld(update_ai(CurrentWorld, draw, now))
         /\ last' = [last EXCEPT
                       !.op = "update_ai",
                       !.ai.called = TRUE,
                       !.ai.selected_at =
                          [i \in 1..Len(entities) |->
                              IF ai_retargets(entities[i], draw[i], now)
                              THEN now ELSE last.ai.selected_at[i]]]
    /\ UNCHANGED <<obstacles, colliders, map_lock>>
    /\ UNCHANGED <<now, client_entity_map, conn, collision_events, pc,
                   panicked, lock>>

AiNext == AiAdvanceTime \/ UpdateAi

AiSpec == AiInit /\ [][AiNext]_vars

\* ------------------------------------- the map and the grain of the locks
\* The obstacles of the arena, and the threads at the grain of their lock
\* operations: two handlers, the UI thread with the buttons of its menu and
\* the parts of its frame.  An obstacle is its collider handle (its position
\* is not state of the model).
MaxMaps == 2
MaxLockConns == 2
LockAddrs == 1..MaxLockConns

\* The number of iterations of the loop of generate_obstacles.
ObstacleCount == 25

\* Obstacle::new(position, collider_handle).
Obstacle(collider_handle) == collider_handle

\* A remove_all_obstacles that removes no collider and leaves the list.
remove_no_obstacles(obs, col) == [obstacles |-> obs, colliders |-> col]

\* GameLogic::remove_all_obstacles: the collider of every obstacle is
\* removed from the arena and the list is cleared.  The result is
\* [obstacles, colliders].
remove_all_obstacles(obs, col) ==
    [obstacles |-> <<>>,
     colliders |-> [col EXCEPT !.live = @ \ SeqRange(obs)]]

\* GameLogic::generate_obstacles: ObstacleCount times, a collider without
\* parent body is inserted and an Obstacle with its handle is pushed.
generate_obstacles(obs, col) ==
    [obstacles |-> obs \o [i \in 1..ObstacleCount |->
                             Obstacle(col.next + i - 1)],
     colliders |-> [live |-> col.live
                               \cup (col.next..(col.next + ObstacleCount - 1)),
                    next |-> col.next + ObstacleCount]]

\* GameLogic::generate_map as far as the obstacles go; reposition_entities
\* follows.
generate_map(obs, col) ==
    generate_obstacles(remove_all_obstacles(obs, col).obstacles,
                       remove_all_obstacles(obs, col).colliders)

\* GameUI::show_menu, "Generate Map".
GenerateMap ==
    /\ Unlocked
    /\ lock_available(lock)
    /\ colliders.next <= ObstacleCount * (MaxMaps - 1) + 1
    /\ obstacles' = generate_map(obstacles, colliders).obstacles
    /\ colliders' = generate_map(obstacles, colliders).colliders
    /\ panicked' = reposition_fails(CurrentWorld)
    /\ last' = [NoHistory EXCEPT
                  !.op = "map",
                  !.placed = IF entities = <<>> THEN {} ELSE reposition_draws]
    /\ UNCHANGED <<entities, bullets, bodies, nextHandle, now,
                   client_entity_map, conn, collision_events, pc, lock,
                   map_lock>>

\* GameUI::update, the side panel: the entity table is filled under the
\* world lock, which the closure drops at its end.
SidePanel ==
    /\ pc = "frame" /\ ~panicked
    /\ lock_available(lock)
    /\ pc' = "plot"
    /\ UNCHANGED <<obstacles, colliders, map_lock>>
    /\ UNCHANGED <<entities, bullets, bodies, nextHandle, now,
                   client_entity_map, conn, collision_events, panicked, lock,
                   last>>

\* A plot closure that keeps its guard while display_entities runs.
keep_plot_guard(l) == UiThread

\* "drop(game_logic)" before display_entities and draw_obstacles.
drop_plot_guard(l) == Free

\* GameUI::update, the plot: the bullets are read under the world lock
\* (bodies[bullet.handle]) and the guard is dropped.
PlotBullets ==
    /\ pc = "plot" /\ ~panicked
    /\ lock_available(lock)
    /\ lock' = drop_plot_guard(lock)
    /\ pc' = "display"
    /\ panicked' = \E k \in 1..Len(bullets) : bullets[k].handle \notin bodies
    /\ UNCHANGED <<obstacles, colliders, map_lock>>
    /\ UNCHANGED <<entities, bullets, bodies, nextHandle, now,
                   client_entity_map, conn, collision_events, last>>

\* GameUI::display_entities: the world lock is taken for the function
\* (bodies[entity.handle]).
DisplayEntities ==
    /\ pc = "display" /\ ~panicked
    /\ lock_available(lock)
    /\ pc' = "obstacles"
    /\ panicked' = reposition_fails(CurrentWorld)
    /\ UNCHANGED <<obstacles, colliders, map_lock>>
    /\ UNCHANGED <<entities, bullets, bodies, nextHandle, now,
                   client_entity_map, conn, collision_events, lock, last>>

\* GameUI::draw_obstacles: the world lock is taken for the function; the
\* frame ends.
DrawObstacles ==
    /\ pc = "obstacles" /\ ~panicked
    /\ lock_available(lock)
    /\ pc' = "idle"
    /\ last' = NoHistory
    /\ UNCHANGED <<obstacles, colliders, map_lock>>
    /\ UNCHANGED <<entities, bullets, bodies, nextHandle, now,
                   client_entity_map, conn, collision_events, panicked, lock>>

\* process_message, the block that reads the binding: the map lock is
\* taken for the lookup and dropped at the end of the block.
LookUpBinding(a) ==
    /\ ~panicked
    /\ conn[a].pc = "line"
    /\ Head(conn[a].pending).code # "QUIT"
    /\ ~conn[a].dropped
    /\ parse_message(Head(conn[a].pending)).kind = "set"
    /\ lock_available(map_lock)
    /\ conn' = [conn EXCEPT ![a].pc = "looked"]
    /\ last' = NoHistory
    /\ UNCHANGED <<obstacles, colliders, map_lock>>
    /\ UNCHANGED <<entities, bullets, bodies, nextHandle, now,
                   client_entity_map, collision_events, pc, panicked, lock>>

\* process_message, game_logic.lock() in the arm of the sub-command.
LockWorldLooked(a) ==
    /\ ~panicked
    /\ conn[a].pc = "looked"
    /\ lock_available(lock)
    /\ lock' = Handler(a)
    /\ conn' = [conn EXCEPT ![a].pc = "locked"]
    /\ last' = NoHistory
    /\ UNCHANGED <<obstacles, colliders, map_lock>>
    /\ UNCHANGED <<entities, bullets, bodies, nextHandle, now,
                   client_entity_map, collision_events, pc, panicked>>

\* Where the handler goes on after the removal: for a QUIT the socket is
\* shut down and handle_received_message returns to the loop of run; at the
\* end of the stream and after the delay the socket is shut down and run
\* ends.
after_removal(c) ==
    IF c.pending # <<>>
    THEN [c EXCEPT !.pc = "check", !.pending = <<>>, !.quit = TRUE,
                   !.shut = TRUE, !.found = 0]
    ELSE [stopped(c, "done") EXCEPT !.shut = TRUE]

\* check_timeout (the delay has passed) or handle_disconnection (for a QUIT,
\* at the end of the stream), the scrutinee of "if let Some(entity_id) =
\* self.client_entity_map.lock().unwrap().remove(&peer_addr)": the map lock
\* is taken and the binding removed; the guard lives to the end of the
\* if let.
LockMap(a) ==
    /\ ~panicked
    /\ \/ conn[a].pc = "check" /\ timed_out(conn[a].previous_time, now)
       \/ conn[a].pc = "read"
       \/ conn[a].pc = "line" /\ Head(conn[a].pending) = QUIT
    /\ ~conn[a].dropped
    /\ lock_available(map_lock)
    /\ map_lock' = Handler(a)
    /\ client_entity_map' = map_remove(client_entity_map, a)
    /\ conn' = [conn EXCEPT ![a].pc = "unbinding",
                            ![a].found = bound_id(client_entity_map, a)]
    /\ last' = NoHistory
    /\ UNCHANGED <<obstacles, colliders>>
    /\ UNCHANGED <<entities, bullets, bodies, nextHandle, now,
                   collision_events, pc, panicked, lock>>

\* The body of the if let, "let mut logic = self.game_logic.lock().unwrap()":
\* the world lock is taken while the map lock is held.
LockWorldHoldingMap(a) ==
    /\ ~panicked
    /\ conn[a].pc = "unbinding" /\ conn[a].found # 0
    /\ lock_available(lock)
    /\ lock' = Handler(a)
    /\ conn' = [conn EXCEPT ![a].pc = "removing"]
    /\ last' = NoHistory
    /\ UNCHANGED <<obstacles, colliders, map_lock>>
    /\ UNCHANGED <<entities, bullets, bodies, nextHandle, now,
                   client_entity_map, collision_events, pc, panicked>>

\* remove_entity_by_id and the end of the if let, where both guards are
\* dropped.
RemoveBound(a) ==
    /\ ~panicked
    /\ conn[a].pc = "removing"
    /\ SetWorld(remove_entity_by_id(CurrentWorld, conn[a].found))
    /\ lock' = Free
    /\ map_lock' = Free
    /\ conn' = [conn EXCEPT ![a] = after_removal(conn[a])]
    /\ last' = NoHistory
    /\ UNCHANGED <<obstacles, colliders>>
    /\ UNCHANGED <<now, client_entity_map, collision_events, pc, panicked>>

\* The address had no binding: the map guard is dropped at the end of the
\* if let.
ReleaseMap(a) ==
    /\ ~panicked
    /\ conn[a].pc = "unbinding" /\ conn[a].found = 0
    /\ map_lock' = Free
    /\ conn' = [conn EXCEPT ![a] = after_removal(conn[a])]
    /\ last' = NoHistory
    /\ UNCHANGED <<obstacles, colliders>>
    /\ UNCHANGED <<entities, bullets, bodies, nextHandle, now,
                   client_entity_map, collision_events, pc, panicked, lock>>

LockLines == {<<Cmd("SET_NAME", <<"x">>)>>, <<QUIT>>}

LockInit ==
    /\ entities = <<>>
    /\ bullets = <<>>
    /\ bodies = {}
    /\ nextHandle = 1
    /\ now = 0
    /\ client_entity_map = {}
    /\ conn = [a \in LockAddrs |-> NoConn]
    /\ collision_events = <<>>
    /\ pc = "idle"
    /\ panicked = FALSE
    /\ lock = Free
    /\ last = NoHistory
    /\ obstacles = <<>>
    /\ colliders = NoColliders
    /\ map_lock = Free

LockNext ==
    \/ AdvanceTime
    \/ GenerateMap
    \/ ResetSimulation
    \/ TickBegin
    \/ TickResolve
    \/ SidePanel
    \/ PlotBullets
    \/ DisplayEntities
    \/ DrawObstacles
    \/ \E a \in LockAddrs : Connect(a)
    \/ \E a \in LockAddrs : CheckTimeout(a)
    \/ \E a \in LockAddrs, line \in LockLines : ReadLine(a, line)
    \/ \E a \in LockAddrs : LookUpBinding(a)
    \/ \E a \in LockAddrs : LockWorldLooked(a)
    \/ \E a \in LockAddrs : SetField(a)
    \/ \E a \in LockAddrs : WriteReply(a)
    \/ \E a \in LockAddrs : LockMap(a)
    \/ \E a \in LockAddrs : LockWorldHoldingMap(a)
    \/ \E a \in LockAddrs : RemoveBound(a)
    \/ \E a \in LockAddrs : ReleaseMap(a)

LockSpec == LockInit /\ [][LockNext]_vars

\* ------------------------------------------------------------ properties
EntityHandles == {entities[i].handle : i \in 1..Len(entities)}
LiveBulletHandles == {bullets[k].handle : k \in 1..Len(bullets)}
TickDone == last.op = "tick"
\* The step in which handle_collisions and the reaping passes run.
ResolveStep == pc = "collide" /\ pc' = "frame"

\* No resolved event has taken health from the shooter of its bullet.
C1_NoLoggedSelfDamage ==
    \A k \in 1..Len(last.hits) :
        last.hits[k].struck = last.hits[k].shooter => last.hits[k].health = 0

\* Every event of the step that involves entity i is with a bullet it fired.
C1_OnlyOwnBullets(i) ==
    LET h == entities[i].handle
        Own(x) == \E k \in 1..Len(bullets) :
                     bullets[k].handle = x /\ bullets[k].shooter = h
    IN \A n \in 1..Len(collision_events) :
          /\ collision_events[n][1] = h => Own(collision_events[n][2])
          /\ collision_events[n][2] = h => Own(collision_events[n][1])

\* C1: no entity's health is decremented by a collision with a projectile
\* whose shooter handle is the entity's own handle: no resolved event takes
\* health from the shooter of its bullet, and an entity all of whose events
\* in a tick are with its own projectiles is still there with the same
\* health after the tick's collision resolution.
C1_NoSelfDamage ==
    /\ [](C1_NoLoggedSelfDamage)
    /\ [][ResolveStep =>
            \A i \in 1..Len(entities) :
                C1_OnlyOwnBullets(i) =>
                    \E j \in 1..Len(entities') :
                        /\ entities'[j].handle = entities[i].handle
                        /\ entities'[j].health = entities[i].health]_vars

\* A tick has resolved a collision of a projectile with its own shooter, and
\* the shooter is in the world with health 1.
C1_Witness ==
    /\ TickDone
    /\ \E k \in 1..Len(last.hits) :
          /\ last.hits[k].struck = last.hits[k].shooter
          /\ \E i \in 1..Len(entities) :
                /\ entities[i].handle = last.hits[k].struck
                /\ entities[i].health = 1

NoDuplicates(sq) == \A i, j \in 1..Len(sq) : i # j => sq[i] # sq[j]

\* C2: in every tick every projectile is removed at most once, no projectile
\* that was not marked is removed, and no removal by index is attempted with
\* a stale or out-of-range index (Vec::remove does not panic).
C2_ExactlyOnceRemoval ==
    TickDone =>
        /\ ~panicked
        /\ NoDuplicates(last.removed \o last.reaped)
        /\ SeqRange(last.removed) \subseteq SeqRange(last.marks)

\* After a tick every entity of the list has health > 0.
C3_NoDeadAfterTick ==
    TickDone => \A i \in 1..Len(entities) : entities[i].health > 0

\* C3: an entity's health never increases, and at the end of every tick no
\* entity with health <= 0 is in the entity list.
C3_HealthAndDeath ==
    /\ [](C3_NoDeadAfterTick)
    /\ [][\A i \in 1..Len(entities), j \in 1..Len(entities') :
            entities'[j].handle = entities[i].handle
                => entities'[j].health <= entities[i].health]_vars

\* C4: when a projectile fired by a live entity A produces a collision-start
\* event with a different live entity B, then in that tick the event takes
\* exactly 1 from B's health, adds exactly 1 to A's score, and the
\* projectile is no longer in the bullet list.
C4_HitScoresAndConsumes ==
    TickDone =>
        \A k \in 1..Len(last.hits) :
            (/\ last.hits[k].scorer # NoBody
             /\ last.hits[k].struck # NoBody
             /\ last.hits[k].struck # last.hits[k].shooter)
                => /\ last.hits[k].health = 1
                   /\ last.hits[k].score = 1
                   /\ last.hits[k].bullet \notin LiveBulletHandles

\* C5: every binding in client_entity_map names an entity that is in the
\* world.
C5_BindingsNameLiveEntities ==
    \A p \in client_entity_map :
        \E i \in 1..Len(entities) : entities[i].id = p[2]

\* C6: a step of a connection's handler changes or removes no entity other
\* than the one that was created for the connection.
C6_HandlerTouchesOwnEntity ==
    [][\A a \in Addrs :
          (conn[a].pc # "none" /\ conn'[a] # conn[a])
              => Touched(CurrentWorld, CurrentWorld') \subseteq {conn[a].entity}]_vars

\* C7: every live entity and every live projectile holds a handle to a body
\* of the physics world, the handles are pairwise distinct, and every body
\* belongs to one of them.
C7_HandlesMatchBodies ==
    /\ \A i, j \in 1..Len(entities) :
          i # j => entities[i].handle # entities[j].handle
    /\ \A k, l \in 1..Len(bullets) :
          k # l => bullets[k].handle # bullets[l].handle
    /\ EntityHandles \cap LiveBulletHandles = {}
    /\ bodies = EntityHandles \cup LiveBulletHandles

\* Entities and a projectile are live after both an entity and a projectile
\* have been removed.
C7_Witness ==
    /\ pc = "idle"
    /\ Len(entities) >= 1
    /\ Len(bullets) >= 1
    /\ Cardinality(bodies) + 2 < nextHandle
    /\ \E a \in Addrs : conn[a].pc = "done"

RECURSIVE SumOver(_, _, _)
SumOver(hits, b, field) ==
    IF hits = <<>> THEN 0
    ELSE (IF Head(hits).bullet = b THEN Head(hits)[field] ELSE 0)
            + SumOver(Tail(hits), b, field)

\* C8: within one tick a projectile causes at most one health decrement and
\* at most one score increment in total.
C8_OneResolutionPerProjectile ==
    TickDone =>
        \A b \in SeqRange(last.marks) :
            /\ SumOver(last.hits, b, "health") <= 1
            /\ SumOver(last.hits, b, "score") <= 1

\* C9: a projectile that collides with an entity other than its shooter
\* takes 1 from that entity's health whether or not the shooter is still in
\* the world, and when the shooter is not, no score is given.
C9_DamageWithoutShooter ==
    TickDone =>
        \A k \in 1..Len(last.hits) :
            /\ (last.hits[k].struck # NoBody
                /\ last.hits[k].struck # last.hits[k].shooter)
                  => last.hits[k].health = 1
            /\ last.hits[k].scorer = NoBody => last.hits[k].score = 0

InsideArena(pos) ==
    pos[1] >= 0 /\ pos[1] <= ARENA_WIDTH /\ pos[2] >= 0 /\ pos[2] <= ARENA_HEIGHT

\* C10: at the end of every tick no projectile remains whose age is at least
\* the TTL of 2 s or whose position is outside the arena
\* [0, 1200] x [0, 1000].
C10_NoStaleProjectileAfterTick ==
    TickDone =>
        \A k \in 1..Len(bullets) :
            /\ ~expired(bullets[k], now)
            /\ InsideArena(bullets[k].pos)

\* The threads inside a critical section of the world lock: the UI thread
\* between the two parts of its tick, a handler between game_logic.lock()
\* and the end of the block.
InCriticalSection ==
    (IF pc = "collide" THEN {UiThread} ELSE {})
      \cup {Handler(a) : a \in {b \in Addrs : conn[b].pc = "locked"}}

C11_OneHolder ==
    /\ Cardinality(InCriticalSection) <= 1
    /\ InCriticalSection \subseteq {lock}

\* A step that changes the world is taken by the thread that holds the lock,
\* or takes the lock itself (the lock being free).
C11_ChangeUnderLock ==
    (CurrentWorld' # CurrentWorld) =>
        \/ lock = Free
        \/ lock = UiThread /\ pc = "collide" /\ pc' = "frame" /\ conn' = conn
        \/ \E a \in Addrs :
             /\ lock = Handler(a)
             /\ conn[a].pc = "locked" /\ conn'[a].pc = "reply"
             /\ pc' = pc

\* C11: the tick, a handler's mutation, the UI's add and reset and an entity
\* removal are never inside their critical sections together: at most one
\* thread is in a critical section, it is the holder of the world lock, and
\* the world changes only in steps of the holder.
C11_MutualExclusion == []C11_OneHolder /\ [][C11_ChangeUnderLock]_vars

\* A handler holds the lock while an AI entity waits to be ticked.
C11_Witness ==
    \E a \in Addrs :
        /\ conn[a].pc = "locked" /\ lock = Handler(a)
        /\ \E i \in 1..Len(entities) : entities[i].is_ai

\* C12: once the handler of a connection has returned from run, the socket
\* has been shut down, the address has no binding and the entity created
\* for the connection is not in the world.
C12_TerminatedMeansReleased ==
    \A a \in Addrs :
        conn[a].pc = "done" =>
            /\ conn[a].shut
            /\ ~map_has(client_entity_map, a)
            /\ conn[a].entity \notin EntityHandles

\* A connection whose handler is running and whose previous_time is more
\* than the timeout back.
Idle(a) ==
    /\ conn[a].pc \in {"check", "read", "line", "locked", "reply"}
    /\ timed_out(conn[a].previous_time, now)

ForceClosed(a) ==
    /\ conn[a].pc = "done" /\ conn[a].shut
    /\ ~map_has(client_entity_map, a)
    /\ conn[a].entity \notin EntityHandles

\* C13: a connection that has been idle for longer than the timeout is
\* eventually closed by its handler, binding and entity removed, unless a
\* sub-command is processed in between; also when the handler is waiting
\* in a read.
C13_IdleIsClosed ==
    \A a \in Addrs : Idle(a) ~> (ForceClosed(a) \/ ~Idle(a))

\* C14: no handler thread panics.
C14_NoHandlerPanics == \A a \in Addrs : conn[a].pc # "panicked"

\* C15: once a handler has handled a QUIT sub-command it returns from no
\* further read, processes no further sub-command and writes no reply.
C15_QuitEndsTheLoop ==
    [][\A a \in Addrs :
          conn[a].quit =>
             /\ conn[a].pc = "read" => conn'[a].pc = "read"
             /\ conn[a].pc = "line" => conn'[a].pc = "line"
             /\ conn'[a].pc # "reply"]_vars

\* The shapes of a number and of a hexadecimal colour, as a client writes
\* them: an optional sign, decimal digits with at most one point; hex digits.
is_numeral(cs) ==
    /\ cs # <<>>
    /\ \E s \in {0, 1} :
         /\ s = 1 => cs[1] \in {"+", "-"}
         /\ Len(cs) > s
         /\ \A i \in (s + 1)..Len(cs) :
               cs[i] \in {"0", "1", "2", "3", "4", "5", "6", "7", "8", "9", "."}
         /\ Cardinality({i \in (s + 1)..Len(cs) : cs[i] = "."}) <= 1
         /\ \E i \in (s + 1)..Len(cs) : cs[i] # "."

is_hex(cs) ==
    /\ cs # <<>>
    /\ \A i \in 1..Len(cs) :
          cs[i] \in {"0", "1", "2", "3", "4", "5", "6", "7", "8", "9",
                     "a", "b", "c", "d", "e", "f",
                     "A", "B", "C", "D", "E", "F"}

is_byte(cs) ==
    /\ cs # <<>>
    /\ \A i \in 1..Len(cs) :
          cs[i] \in {"0", "1", "2", "3", "4", "5", "6", "7", "8", "9"}
    /\ digits_value(cs, 10, 255, 0) >= 0

\* The malformed sub-commands: an unknown code, a missing argument, an
\* actuator value that is no number, a colour with no argument, with one
\* argument that is empty or not hexadecimal, with two or more than three
\* arguments, or with three of which one is a decimal number above 255.
malformed(cmd) ==
    \/ cmd.code \notin {"SET_NAME", "SET_COLOR", "QUIT"} \cup ACTUATORS
    \/ cmd.code \in {"SET_NAME", "SET_COLOR"} \cup ACTUATORS /\ cmd.args = <<>>
    \/ /\ cmd.code \in ACTUATORS /\ cmd.args # <<>>
       /\ ~is_numeral(chars(cmd.args[1]))
    \/ /\ cmd.code = "SET_COLOR"
       /\ \/ Len(cmd.args) = 1 /\ ~is_hex(chars(cmd.args[1]))
          \/ Len(cmd.args) = 2
          \/ Len(cmd.args) > 3
          \/ /\ Len(cmd.args) = 3
             /\ \E i \in 1..3 :
                   /\ is_numeral(chars(cmd.args[i]))
                   /\ ~is_byte(chars(cmd.args[i]))

\* The well-formed mutating sub-commands.
well_formed(cmd) ==
    \/ cmd.code = "SET_NAME" /\ Len(cmd.args) = 1
    \/ cmd.code = "SET_COLOR" /\ Len(cmd.args) = 1 /\ is_hex(chars(cmd.args[1]))
    \/ /\ cmd.code = "SET_COLOR" /\ Len(cmd.args) = 3
       /\ \A i \in 1..3 : is_byte(chars(cmd.args[i]))
    \/ /\ cmd.code \in ACTUATORS /\ Len(cmd.args) = 1
       /\ is_numeral(chars(cmd.args[1]))

ErrorReplies ==
    {"Missing name", "Missing color value", "Invalid color hex value",
     "Invalid RGB values", "Invalid color format. Use hex or R=G=B",
     "Missing value", "Invalid float value", "Unknown command"}

\* The connection of a is open: neither shut down by the handler nor gone.
Open(a) == ~conn[a].shut /\ ~conn[a].dropped

\* C16: the handler of an open connection answers a malformed sub-command
\* with an error reply, changes no entity, and goes on to the next
\* sub-command or read.
C16_MalformedIsRejected ==
    [][\A a \in Addrs :
          (/\ conn[a].pc \in {"line", "locked"}
           /\ Open(a)
           /\ malformed(Head(conn[a].pending))
           /\ conn'[a].pc # conn[a].pc)
             => /\ conn'[a].pc \in {"locked", "reply"}
                /\ conn'[a].pc = "reply" =>
                      conn'[a].reply \in ErrorReplies \cup {"Entity not found"}
                /\ entities' = entities
                /\ Open(a)']_vars

\* C17: the handler of an open connection answers a well-formed mutating
\* sub-command, when no entity has the id bound to the connection, with
\* "Entity not found", and changes neither the world nor the map.
C17_MissingEntityIsReported ==
    [][\A a \in Addrs :
          (/\ conn[a].pc \in {"line", "locked"}
           /\ Open(a)
           /\ well_formed(Head(conn[a].pending))
           /\ get_entity_mut(entities, bound_id(client_entity_map, a)) = 0
           /\ conn'[a].pc # conn[a].pc)
             => /\ conn'[a].pc = IF conn[a].pc = "line" THEN "locked"
                                 ELSE "reply"
                /\ conn'[a].pc = "reply" => conn'[a].reply = "Entity not found"
                /\ CurrentWorld' = CurrentWorld
                /\ client_entity_map' = client_entity_map
                /\ Open(a)']_vars

\* The reply "Entity not found" is about to be written on an open
\* connection whose binding names no entity.
C17_Witness ==
    \E a \in Addrs :
        /\ conn[a].pc = "reply" /\ conn[a].reply = "Entity not found"
        /\ Open(a)
        /\ map_has(client_entity_map, a)
        /\ well_formed(Head(conn[a].pending))

\* C18: every step that finishes a sub-command sets previous_time to the
\* current time.
C18_EverySubCommandResetsTimer ==
    [][\A a \in Addrs :
          (/\ conn[a].pc \in {"line", "reply"}
           /\ conn'[a].pc \in {"check", "line"}
           /\ Len(conn'[a].pending) < Len(conn[a].pending))
             => conn'[a].previous_time = now_secs(now)]_vars

\* C19: a handler that is in read_line or at writeln! and flush does not
\* hold the world lock.
C19_NoSocketWaitUnderLock ==
    \A a \in Addrs :
        conn[a].pc \in {"read", "reply"} => lock # Handler(a)

\* A field was set under the lock, and the confirmation is about to be
\* written with the lock free.
C19_Witness ==
    \E a \in Addrs :
        /\ conn[a].pc = "reply" /\ conn[a].reply = "set to"
        /\ lock = Free

\* C20: after reset_simulation every entity's score is 0, the bullet list is
\* empty, the body of every bullet that was in the list is gone from the
\* physics world, and every position an entity may have been given is
\* inside the arena.
C20_ResetClearsTheWorld ==
    [][last'.op = "reset" =>
          /\ \A i \in 1..Len(entities') : entities'[i].score = 0
          /\ bullets' = <<>>
          /\ \A k \in 1..Len(bullets) : bullets[k].handle \notin bodies'
          /\ \A p \in last'.placed : InsideArena(p)
          /\ entities # <<>> => last'.placed # {}]_vars

\* A reset of a world with two entities or more and a bullet in flight.
C20_Witness ==
    /\ last.op = "reset"
    /\ last.cleared >= 1
    /\ Len(entities) >= 2
    /\ ~panicked

\* The value of the numerals of the actuator grid, in hundredths.
numeral_hundredths(v) ==
    CASE v = "0" -> 0 [] v = "0.25" -> 25 [] v = "0.5" -> 50 [] v = "1" -> 100

\* The step is the actuation phase of a tick.
Actuation == pc = "idle" /\ pc' = "collide"

\* C21: processing ACTUATOR_GUN_TRAVERSE=v for an existing entity sets its
\* gun_traverse to v, and the gun_orientation that the actuation phase of a
\* tick writes for an entity is its gun_traverse times 2*pi radians.
C21_TraverseSetsOrientation ==
    [][/\ \A a \in Addrs, v \in TraverseValues :
            (/\ conn[a].pc = "locked" /\ conn'[a].pc = "reply"
             /\ Head(conn[a].pending) = Cmd("ACTUATOR_GUN_TRAVERSE", <<v>>)
             /\ get_entity_mut(entities, bound_id(client_entity_map, a)) # 0)
               => entities'[get_entity_mut(entities,
                                bound_id(client_entity_map, a))].gun_traverse
                     = numeral_hundredths(v)
       /\ Actuation =>
            \A i \in 1..Len(entities') : \A c \in last'.commands :
                c.handle = entities'[i].handle
                  => c.gun_orientation
                        = (entities'[i].gun_traverse * TAU) \div 100]_vars

\* C28: for motor values l and r in 0.0 .. 1.0 the actuation phase commands
\* the forward speed 100 * (l + r - 1) and the angular velocity 5 * (r - l);
\* for l = r = 0.5 both are zero.
C28_DifferentialDrive ==
    [][Actuation =>
         \A i \in 1..Len(entities') : \A c \in last'.commands :
            (/\ c.handle = entities'[i].handle
             /\ entities'[i].motor_left \in 0..100
             /\ entities'[i].motor_right \in 0..100)
               => /\ c.forward = entities'[i].motor_left
                                   + entities'[i].motor_right - 100
                  /\ c.rotation = 50 * (entities'[i].motor_right
                                          - entities'[i].motor_left)
                  /\ (entities'[i].motor_left = 50
                      /\ entities'[i].motor_right = 50)
                        => c.forward = 0 /\ c.rotation = 0]_vars

\* The actuation phase has commanded an entity to move forward while turning.
C28_Witness ==
    /\ last.op = "actuate"
    /\ \E c \in last.commands : c.forward > 0 /\ c.rotation > 0

\* C24: the ids of the entities in the world are pairwise distinct and each
\* is at least 1.
C24_LiveIdsDistinct ==
    /\ \A i, j \in 1..Len(entities) : i # j => entities[i].id # entities[j].id
    /\ \A i \in 1..Len(entities) : entities[i].id >= 1

\* Two entities or more are in the world and an id below the largest one is
\* held by none of them: an entity was removed and others were added.
C24_Witness ==
    /\ Len(entities) >= 2
    /\ \E n \in 1..MaxEntities :
          /\ \A i \in 1..Len(entities) : entities[i].id # n
          /\ \E i \in 1..Len(entities) : entities[i].id > n

\* C25: an id is handed out once in the lifetime of the world: the id that
\* was bound to a connection's entity is held by no entity other than that
\* one, also after that entity has been removed and others have been added.
C25_IdNeverReissued ==
    \A a \in Addrs : \A i \in 1..Len(entities) :
        (/\ conn[a].pc # "none"
         /\ map_has(client_entity_map, a)
         /\ entities[i].id = bound_id(client_entity_map, a))
            => entities[i].handle = conn[a].entity

\* C26: across every step other than a reset of the simulation, an entity
\* that stays in the world keeps its score or gains.
C26_ScoreNeverDecreases ==
    [][last'.op # "reset" =>
          \A i \in 1..Len(entities) : \A j \in 1..Len(entities') :
              entities'[j].handle = entities[i].handle
                  => entities'[j].score >= entities[i].score]_vars

\* A tick has resolved a hit and an entity in the world has scored.
C26_Witness ==
    /\ last.op = "tick"
    /\ Len(last.hits) >= 1
    /\ \E i \in 1..Len(entities) : entities[i].score >= 1

\* C27: motor_left, motor_right, gun_trigger and gun_traverse of every
\* entity lie in 0.0 .. 1.0.
C27_ActuatorsInUnitRange ==
    \A i \in 1..Len(entities) :
        /\ entities[i].motor_left \in 0..100
        /\ entities[i].motor_right \in 0..100
        /\ entities[i].gun_trigger \in 0..100
        /\ entities[i].gun_traverse \in 0..100

\* The bullets of the next state that the step has spawned through the
\* trigger of the entity with that handle (Bullet::new).
TriggerShots(shooter) ==
    {k \in 1..Len(bullets') : /\ bullets'[k].handle >= nextHandle
                              /\ bullets'[k].shooter = shooter
                              /\ bullets'[k].active_events}

\* last_shot of an entity when the actuation phase of the tick begins:
\* update_ai, which runs before it, has restarted it for an AI entity whose
\* shot was due.
ActuationLastShot(entity) ==
    IF ai_shoots(entity, now) THEN now ELSE entity.last_shot

\* The entity fires in the actuation phase of the tick.
TriggerDue(entity) ==
    /\ f32_gt(entity.gun_trigger, TRIGGER_THRESHOLD)
    /\ elapsed_ms(ActuationLastShot(entity), now) >= BOT_RATE_OF_FIRE

\* C23: in the actuation phase of a tick an entity spawns one projectile if
\* its gun_trigger is above 0.5 and the rate-of-fire duration has elapsed
\* since its last_shot, and none otherwise; last_shot becomes the current
\* time when it spawns and is left alone when it does not.  Two
\* trigger-fired projectiles of one entity are at least the rate-of-fire
\* duration apart.
C23_TriggerAndCooldown ==
    [][Actuation =>
         /\ \A i \in 1..Len(entities) :
               /\ Cardinality(TriggerShots(entities[i].handle))
                     = IF TriggerDue(entities[i]) THEN 1 ELSE 0
               /\ \A k \in TriggerShots(entities[i].handle) :
                     bullets'[k].created_at = now
               /\ entities'[i].last_shot
                     = IF TriggerDue(entities[i]) THEN now
                       ELSE ActuationLastShot(entities[i])
         /\ \A k, l \in 1..Len(bullets') :
               (/\ k # l
                /\ bullets'[k].shooter = bullets'[l].shooter
                /\ bullets'[k].active_events /\ bullets'[l].active_events
                /\ bullets'[k].created_at >= bullets'[l].created_at)
                  => bullets'[k].created_at - bullets'[l].created_at
                        >= BOT_RATE_OF_FIRE]_vars

\* The actuation phase has spawned a projectile for an entity whose trigger
\* is pulled, while a projectile it fired earlier is still in flight.
C23_Witness ==
    /\ pc = "collide"
    /\ \E i \in 1..Len(entities) : \E k, l \in 1..Len(bullets) :
          /\ f32_gt(entities[i].gun_trigger, TRIGGER_THRESHOLD)
          /\ entities[i].last_shot = now
          /\ bullets[k].shooter = entities[i].handle
          /\ bullets[k].active_events
          /\ bullets[k].created_at = now
          /\ bullets[l].shooter = entities[i].handle
          /\ bullets[l].active_events
          /\ bullets[l].created_at < now

\* C22: for all components r, g and b, SET_COLOR with the one argument
\* RRGGBB in hexadecimal and SET_COLOR with the three arguments r, g and b
\* in decimal both set the colour of the bound entity to (r, g, b).
C22_HexAndDecimalAgree ==
    [][\A a \in Addrs : \A r, g, b \in ColorGrid :
          (/\ conn[a].pc = "locked" /\ conn'[a].pc = "reply"
           /\ Head(conn[a].pending) \in {HexColor(r, g, b), DecimalColor(r, g, b)}
           /\ get_entity_mut(entities, bound_id(client_entity_map, a)) # 0)
             => /\ entities'[get_entity_mut(entities,
                                 bound_id(client_entity_map, a))].color
                      = <<r, g, b>>
                /\ conn'[a].reply = "Color set to RGB"]_vars

\* The colour (255, 0, 255) has been set by the sub-command SET_COLOR=FF00FF.
C22_Witness ==
    \E a \in Addrs :
        /\ conn[a].pc = "reply"
        /\ conn[a].reply = "Color set to RGB"
        /\ Head(conn[a].pending) = Cmd("SET_COLOR", <<"FF00FF">>)
        /\ \E i \in 1..Len(entities) :
              /\ entities[i].handle = conn[a].entity
              /\ entities[i].color = <<255, 0, 255>>

\* C29: an AI entity for which update_ai is called regularly, once every
\* 250 ms, picks a new target and a new gun orientation again and again: no
\* more than 3 s and one period pass after a selection without the next.
C29_WaypointsKeepComing ==
    \A i \in 1..Len(entities) :
        (/\ last.op = "update_ai"
         /\ last.ai.regular
         /\ entities[i].is_ai)
            => now - last.ai.selected_at[i] <= 3000 + AiStep

\* The autonomous shots of the entity with that handle that are in the
\* bullet list.
AiShots(shooter, bs) ==
    {k \in 1..Len(bs) : bs[k].shooter = shooter /\ ~bs[k].active_events}

\* C30: in every call of update_ai at which 500 ms or more have passed since
\* the previous autonomous shot of an AI entity, the entity fires one
\* projectile whose shooter is its own handle, whether or not it picks a
\* new target in that call.
C30_ShotCadenceIndependent ==
    [][last'.op = "update_ai" =>
         \A i \in 1..Len(entities) :
            (/\ entities[i].is_ai
             /\ AiShots(entities[i].handle, bullets) # {}
             /\ \A k \in AiShots(entities[i].handle, bullets) :
                   elapsed_ms(bullets[k].created_at, now) >= AI_SHOT_PERIOD)
               => \E k \in AiShots(entities[i].handle, bullets') :
                     /\ bullets'[k].handle >= nextHandle
                     /\ bullets'[k].created_at = now]_vars

\* The events of the buffer whose two colliders both have a parent body
\* (each of them is an event of a bullet, which the loop finds).
BodyEvents(events) ==
    {k \in 1..Len(events) : events[k][1] # NoBody /\ events[k][2] # NoBody}

\* C31: the events a physics step raises are in the buffer only until the
\* collision resolution of the same tick, which handles each of them once
\* and leaves the buffer empty: outside that window the buffer is empty, so
\* that no event is left for the next tick.
C31_EventsResolvedInTheirTick ==
    [][/\ (pc' # "collide") => collision_events' = <<>>
       /\ (pc = "idle" /\ pc' = "collide")
            => \A k \in 1..Len(collision_events') :
                  \A h \in {collision_events'[k][1], collision_events'[k][2]} :
                      h = NoBody \/ h \in bodies'
       /\ (pc = "collide" /\ pc' = "frame")
            => /\ Len(last'.hits) = Cardinality(BodyEvents(collision_events))
               /\ \A k \in 1..Len(last'.hits) :
                     \E e \in BodyEvents(collision_events) :
                        /\ last'.hits[k].bullet \in {collision_events[e][1],
                                                     collision_events[e][2]}
                        /\ Cardinality({l \in BodyEvents(collision_events) :
                                            l <= e}) = k]_vars

\* A tick has resolved two events and the buffer is empty again.
C31_Witness ==
    /\ last.op = "tick"
    /\ Len(last.hits) >= 2
    /\ collision_events = <<>>
    /\ pc = "frame"

\* The handles of the entities of a list.
HandlesOf(ents) == {ents[i].handle : i \in 1..Len(ents)}

\* C32: the shooter of a projectile never changes, and a step that removes
\* an entity leaves the bullet list as it is; in a tick, in which an entity
\* may die, the projectiles that go are those the tick has consumed or
\* reaped, so that the projectiles of a removed entity stay, with their
\* shooter, until they collide, leave the arena or expire.
C32_ShooterSurvivesRemoval ==
    [][/\ \A k \in 1..Len(bullets) : \A l \in 1..Len(bullets') :
             bullets'[l].handle = bullets[k].handle
                => bullets'[l].shooter = bullets[k].shooter
       /\ (HandlesOf(entities) \ HandlesOf(entities') # {}
             /\ ~(pc = "collide" /\ pc' = "frame"))
            => bullets' = bullets
       /\ (pc = "collide" /\ pc' = "frame")
            => \A k \in 1..Len(bullets) :
                  (/\ \A r \in 1..Len(last'.removed) :
                         last'.removed[r] # bullets[k].handle
                   /\ \A r \in 1..Len(last'.reaped) :
                         last'.reaped[r] # bullets[k].handle)
                     => \E l \in 1..Len(bullets') : bullets'[l] = bullets[k]]_vars

\* A connection has ended, its entity has been removed, and a projectile
\* the entity fired is still in the world.
C32_Witness ==
    \E a \in Addrs : \E k \in 1..Len(bullets) :
        /\ conn[a].pc = "done"
        /\ bullets[k].shooter = conn[a].entity
        /\ bullets[k].active_events
        /\ conn[a].entity \notin HandlesOf(entities)
        /\ bullets[k].handle \in bodies

\* C33: a projectile that has had a collision-start event with its own
\* shooter in a tick is gone after the tick, with its body, and the event
\* has taken no health and given no score.
C33_SelfHitConsumesOnly ==
    TickDone =>
        \A k \in 1..Len(last.hits) :
            last.hits[k].struck = last.hits[k].shooter
                => /\ last.hits[k].health = 0
                   /\ last.hits[k].score = 0
                   /\ last.hits[k].bullet \notin LiveBulletHandles
                   /\ last.hits[k].bullet \notin bodies

\* The events of the log in which the entity with that handle was struck
\* and lost health, and those in which it scored.
LossesOf(h, hits) ==
    {k \in 1..Len(hits) : hits[k].struck = h /\ hits[k].health = 1}
GainsOf(h, hits) ==
    {k \in 1..Len(hits) : hits[k].scorer = h /\ hits[k].score = 1}

\* C36: damage and score are paired.  In the collision resolution of a tick
\* every event that takes a health point gives one score point to another
\* entity that is in the world at that moment, and every event that gives
\* a score point takes a health point; the health an entity has lost and
\* the score it has gained in the step are the numbers of these events.
\* No other step but a reset changes the health or the score of an entity,
\* so that between two resets the health lost equals the score gained.
C36_DamageAndScorePaired ==
    [][/\ ResolveStep =>
            /\ \A k \in 1..Len(last'.hits) :
                  /\ last'.hits[k].health = last'.hits[k].score
                  /\ last'.hits[k].health \in {0, 1}
                  /\ last'.hits[k].health = 1
                        => /\ last'.hits[k].scorer \in HandlesOf(entities)
                           /\ last'.hits[k].struck \in HandlesOf(entities)
                           /\ last'.hits[k].scorer # last'.hits[k].struck
            /\ \A i \in 1..Len(entities) : \A j \in 1..Len(entities') :
                  entities'[j].handle = entities[i].handle
                     => /\ entities[i].health - entities'[j].health
                              = Cardinality(LossesOf(entities[i].handle,
                                                     last'.hits))
                        /\ entities'[j].score - entities[i].score
                              = Cardinality(GainsOf(entities[i].handle,
                                                    last'.hits))
            /\ \A i \in 1..Len(entities) :
                  entities[i].handle \notin HandlesOf(entities')
                     => Cardinality(LossesOf(entities[i].handle, last'.hits))
                           >= entities[i].health
       /\ (~ResolveStep /\ last'.op # "reset") =>
            \A i \in 1..Len(entities) : \A j \in 1..Len(entities') :
                  entities'[j].handle = entities[i].handle
                     => /\ entities'[j].health = entities[i].health
                        /\ entities'[j].score = entities[i].score]_vars

\* A tick has resolved two hits: two health points were taken and two score
\* points given.
C36_Witness ==
    /\ last.op = "tick"
    /\ \E k, l \in 1..Len(last.hits) :
          /\ k # l
          /\ last.hits[k].health = 1 /\ last.hits[k].score = 1
          /\ last.hits[l].health = 1 /\ last.hits[l].score = 1
    /\ \E i \in 1..Len(entities) : entities[i].score >= 1

\* The handles that take part in an event between two bodies.
InBodyEvents(events) ==
    UNION {{events[k][1], events[k][2]} : k \in BodyEvents(events)}

\* C37: an event in which a collider has no parent body (a boundary of the
\* arena, an obstacle) changes nothing.  The collision resolution of a tick
\* marks a bullet and logs a hit only for a bullet that is in an event
\* between two bodies, and what it leaves is what it leaves when the events
\* with a parentless collider are taken out of the buffer; when every event
\* of the tick has a parentless collider no bullet is marked or removed by
\* the resolution and no entity changes its health or score.
C37_ParentlessEventsChangeNothing ==
    [][ResolveStep =>
         /\ \A k \in 1..Len(last'.marks) :
               last'.marks[k] \in InBodyEvents(collision_events)
         /\ \A k \in 1..Len(last'.hits) :
               last'.hits[k].bullet \in InBodyEvents(collision_events)
         /\ handle_collisions(CurrentWorld, collision_events)
              = handle_collisions(CurrentWorld,
                                  SelectSeq(collision_events,
                                            LAMBDA ev : ev[1] # NoBody
                                                        /\ ev[2] # NoBody))
         /\ BodyEvents(collision_events) = {}
              => /\ last'.marks = <<>> /\ last'.removed = <<>>
                 /\ last'.hits = <<>>
                 /\ entities' = entities
                 /\ \A k \in 1..Len(bullets) :
                       \/ bullets[k].handle \in SeqRange(last'.reaped)
                       \/ \E l \in 1..Len(bullets') : bullets'[l] = bullets[k]
              ]_vars

\* A tick has drained an event of a bullet with a parentless collider and
\* the bullet is still in the world, with its body.
C37_Witness ==
    /\ last.op = "tick"
    /\ last.parentless >= 1
    /\ last.marks = <<>>
    /\ \E k \in 1..Len(bullets) :
          bullets[k].active_events /\ bullets[k].handle \in bodies

\* C38: a connection without binding resolves to the id 0, and 0 is the id
\* of no entity: a sub-command that sets a field, handled for an address
\* that has no binding, is answered "Entity not found" and leaves every
\* entity as it is.
C38_UnboundResolvesToNoEntity ==
    /\ [](\A i \in 1..Len(entities) : entities[i].id # 0)
    /\ [][\A a \in Addrs :
            (/\ conn[a].pc = "locked" /\ conn'[a].pc = "reply"
             /\ ~map_has(client_entity_map, a))
               => /\ bound_id(client_entity_map, a) = 0
                  /\ conn'[a].reply = "Entity not found"
                  /\ entities' = entities]_vars

\* A handler without binding has answered "Entity not found" while the
\* world holds an entity.
C38_Witness ==
    \E a \in Addrs :
       /\ conn[a].pc = "reply"
       /\ conn[a].reply = "Entity not found"
       /\ ~map_has(client_entity_map, a)
       /\ entities # <<>>

\* The step is a run of handle_disconnection by the handler of a (for an
\* exact QUIT, for QUIT with arguments, at the end of the stream) or the
\* removal of check_timeout.
DisconnectRun(a) ==
    \/ /\ conn[a].pc = "line"
       /\ Head(conn[a].pending).code = "QUIT"
       /\ conn'[a].pc \in {"line", "check"}
       /\ conn'[a].pending # conn[a].pending
    \/ conn[a].pc = "read" /\ conn'[a].pc = "done"
    \/ conn[a].pc = "check" /\ conn'[a].pc = "done"

C34_ObstaclesOnlyByGenerateMap ==
    /\ [](/\ Len(obstacles) = IF colliders.next = 1 THEN 0 ELSE ObstacleCount
          /\ Cardinality(SeqRange(obstacles)) = Len(obstacles)
          /\ colliders.live = SeqRange(obstacles))
    /\ [][/\ last'.op = "map"
               => /\ Len(obstacles') = ObstacleCount
                  /\ SeqRange(obstacles') \cap SeqRange(obstacles) = {}
                  /\ colliders'.live \cap colliders.live = {}
          /\ last'.op # "map"
               => obstacles' = obstacles /\ colliders' = colliders]_vars

\* generate_map has been called for the second time, in a world with an
\* entity: the obstacles are those of the second call.
C34_Witness ==
    /\ last.op = "map"
    /\ entities # <<>>
    /\ Len(obstacles) = ObstacleCount
    /\ obstacles[1] = ObstacleCount + 1

\* The threads, the lock a thread is about to take, and the thread that
\* holds a lock.
Threads == {UiThread} \cup {Handler(a) : a \in LockAddrs}

Wants(t) ==
    IF t = UiThread
    THEN IF pc = "collide" THEN {} ELSE {"world"}
    ELSE IF \/ conn[t.addr].pc = "line"
            \/ conn[t.addr].pc = "check"
                 /\ timed_out(conn[t.addr].previous_time, now)
         THEN {"map"}
         ELSE IF \/ conn[t.addr].pc = "looked"
                 \/ conn[t.addr].pc = "unbinding" /\ conn[t.addr].found # 0
              THEN {"world"}
              ELSE {}

Holder(l) == IF l = "world" THEN lock ELSE map_lock

WaitsFor(t, u) == \E l \in Wants(t) : Holder(l) = u

\* C35: the two locks are taken in one order.  A thread that comes to hold
\* both the map lock and the world lock held the map lock before and took
\* the world lock in that step; a thread that holds the world lock is about
\* to take neither lock; and no thread waits for a lock it holds itself, nor
\* two threads for a lock of each other.
C35_OneLockOrderNoDeadlock ==
    /\ [](\A t \in Threads :
            /\ lock = t => Wants(t) = {}
            /\ ~WaitsFor(t, t)
            /\ \A u \in Threads : ~(WaitsFor(t, u) /\ WaitsFor(u, t)))
    /\ [][\A t \in Threads :
            /\ (lock' = t /\ map_lock' = t /\ ~(lock = t /\ map_lock = t))
                 => map_lock = t /\ lock # t
            /\ (map_lock' = t /\ map_lock # t) => lock # t /\ lock' # t]_vars

\* A handler holds the map lock and the world lock while the other handler
\* is about to take the map lock and the UI thread the world lock.
C35_Witness ==
    \E a, b \in LockAddrs :
       /\ a # b
       /\ lock = Handler(a) /\ map_lock = Handler(a)
       /\ conn[a].pc = "removing"
       /\ "map" \in Wants(Handler(b))
       /\ pc = "frame"
====
